---- MODULE Spec2Model ----
(***************************************************************************)
(* The messaging layer of fk-dashboard (src/src/edge_interface.py): one    *)
(* Page with its Postman, served by concurrent request-handler threads and *)
(* driven by concurrent application threads.  Every step of an action is   *)
(* one access to state shared between threads (the queue attribute, the    *)
(* Queue object, the in_waiting dict, an Event, an attribute of the Page); *)
(* thread-local work is folded into the next shared access.                *)
(***************************************************************************)
EXTENDS Integers, Sequences, FiniteSets, TLC

(* ---------------------------------------------------------------- bounds *)

\* Addresses id() can return: an address is free for a new object as soon as
\* no live object holds it.  There are more of them than objects created in
\* a run, so an address no object has had is always left (PoolLeft).
NumIds == 16
\* Operations started in one run: the calls application threads make (send,
\* send_and_receive, the interval setter, on_button_click) and the HTTP
\* requests the listener accepts (GET, POST); the same for the runs of
\* senders and poll ticks, of callers and replies, and of reloads.
MaxOps == 3
MaxQueueOps == 5
MaxReplyOps == 5
MaxReloadOps == 5
\* Operations of the runs with reloads in which the requests of the page
\* overlap.
MaxOverlapOps == 4
\* Operations of the runs that start the interface up, and of the runs of
\* clicks and settings.
MaxStartOps == 4
MaxPageOps == 4
\* Operations of the runs with blocked callers.
MaxBlockOps == 3
\* Operations of the runs that set the interval of every page.
MaxGlobalOps == 3
\* Calls of the runs in which the page keeps polling and answers what it
\* is asked.
MaxLiveOps == 1
\* Requests of the runs of a page with the hook of main.py.
MaxHookOps == 2
\* Operations of the runs with every kind of POST.
MaxDispatchOps == 4
\* MQTT messages of a run of the databus, and the requests of the page.
MaxMsgs == 3
MaxBusOps == 1
\* Operations of the runs of the interval button: its registration, clicks.
MaxCycleOps == 3
\* EventLoopResponse objects the request handlers create in one run of each
\* kind: by the sends of the hook (five in main.on_load), of a callback and
\* of a GET (one), and for the buffer packets of a GET (two).  A run ends
\* with the handlers standing where the next one would be created, as a run
\* ends with the threads standing where the next operation would start.
MaxSends == 2
MaxQueueSends == 0
MaxReloadSends == 3
MaxTickSends == 4
MaxStartSends == 3
MaxPageSends == 1
MaxBlockSends == 3
MaxGlobalSends == 3
MaxLiveSends == 5
MaxHookSends == 5
MaxDispatchSends == 1
MaxBusSends == 5
MaxCycleSends == 7
\* GETs among the operations of a run.
MaxGets == 1

\* Application threads, and the request-handler threads of the listener.
AppThreads == {"a1", "a2"}
Workers == {"w1", "w2"}
Threads == AppThreads \cup Workers
ThreadOrder == << "a1", "a2", "w1", "w2" >>
IdPool == 1..NumIds

(* ------------------------------------------------------------ data model *)

\* Python's Any as it occurs in payloads: None, an int, a str.
None == [k |-> "null", n |-> 0, s |-> ""]
IntVal(i) == [k |-> "int", n |-> i, s |-> ""]
StrVal(x) == [k |-> "str", n |-> 0, s |-> x]

\* Command (dataclass) and its two class-method constructors.
Command(topic, payload) == [topic |-> topic, payload |-> payload]
javascript(js) == Command("javascript", StrVal(js))
update_interval_cmd(interval) == Command("update_interval", IntVal(interval))

\* A packet that always asks for a response.
to_json_responding(command, id, should_respond) ==
    [topic |-> command.topic, id |-> id,
     should_respond |-> TRUE, payload |-> command.payload]

\* EventLoopResponse.to_json: the packet that travels in the queue.
to_json(command, id, should_respond) ==
    [topic |-> command.topic, id |-> id,
     should_respond |-> should_respond, payload |-> command.payload]

\* EventLoopResponse.nothing().to_json(), for the address the temporary got.
nothing(id) == to_json(Command("nothing", None), id, FALSE)

\* The address of a temporary whose packet is the answer to a request: the
\* packet leaves the process, and which free address it carries is not
\* followed.
SomeId == 0

\* Page.__init__: self._update_interval = 100
DefaultInterval == 100

\* Subdirectories pages are added at; the page at "/" is the one whose
\* requests are followed.
Paths == {"/", "/p"}

\* Inputs the environment draws from.
Scripts == {"js1"}
Intervals == {50}
Tags == {"btn1"}
ReplyPayloads == {StrVal("r1"), StrVal("r2")}

\* The page operations a thread runs, one after the other.
SendOp(c) == [op |-> "send", cmd |-> c, v |-> 0, tag |-> ""]
SarOp(c) == [op |-> "sar", cmd |-> c, v |-> 0, tag |-> ""]
SetIntervalOp(i) == [op |-> "set_interval", cmd |-> Command("", None), v |-> i, tag |-> ""]
OnButtonClickOp(g) == [op |-> "on_button_click", cmd |-> Command("", None), v |-> 0, tag |-> g]
\* The interval setter of the page at another path, and the send it makes.
SetIntervalAt(path, i) == [op |-> "set_interval_at", cmd |-> Command("", None), v |-> i, tag |-> path]
SendAtOp(path, c) == [op |-> "send_at", cmd |-> c, v |-> 0, tag |-> path]

\* The JSON of a request (EventLoopMessage) and the path it is for; topic
\* GET stands for a GET.
NoMsg == [topic |-> "", payload |-> None, id |-> 0, tag |-> "", path |-> "/"]
GetMsg == [NoMsg EXCEPT !.topic = "GET"]
\* The request for the page at "/p".
At(m) == [m EXCEPT !.path = "/p"]
\* The locals of a thread: response.id, the Queue object read (of the page
\* at "/", of the page at "/p"), the message, a counter, and for the loop of
\* set_global_update_interval the size of the dict when its iterator was
\* made and the pages whose setter it has called, which is how far the
\* iterator has got.
NoLocal ==
    [id |-> 0, qref |-> 0, sref |-> 0, msg |-> NoMsg, k |-> 0, n |-> 0, did |-> << >>]

\* The answer to a request: the request, the kind of answer (poll, ack,
\* html, or KeyError for the exception that ends the handler) and the packet
\* answered; for a poll also the Queue object it polled, the serial number
\* of the entry it took (0 if the Queue was empty), and whether nothing had
\* been put on that Queue object so far.
Answer(req, kind, pkt, q, sn, fresh) ==
    [req |-> req, kind |-> kind, pkt |-> pkt, q |-> q, sn |-> sn, fresh |-> fresh]

VARIABLES
    pc,          \* position of every thread
    todo,        \* page operations the thread still has to run, in order
    cont,        \* where the thread goes on once todo is done
    lv,          \* locals: response.id, the queue object read, the message, ...
    queues,      \* every Queue object created so far; the last is the page's
    has_loaded,  \* Page._has_loaded_event
    interval,    \* Page._update_interval
    callbacks,   \* keys of Page._callbacks
    on_load,     \* Page.on_load, as the page operations it runs
    live,        \* addresses of live EventLoopResponse objects
    used,        \* addresses some object has had so far
    in_waiting,  \* keys of Postman.in_waiting (the value is the object at that address)
    result,      \* EventLoopResponse.result, by address
    signaled,    \* EventLoopResponse.event, by address
    \* history
    nput,        \* puts so far: the serial number of the next entry
    enqLog,      \* per Queue object, the entries put, in order
    deqLog,      \* per Queue object, the entries got, in order
    invalAt,     \* per Queue object, the puts completed when it was created
    ngot,        \* entries poll ticks have taken so far
    hookRuns,    \* on_load invocations since the last GET cleared the flag
    clicks,      \* callback invocations so far
    budget,      \* operations the run may start
    quota,       \* EventLoopResponse objects the request handlers may still create
    nops,        \* operations started so far
    ngets,       \* GETs among them
    posted,      \* per id, the payloads of the replies process_message looked it up for
    nresolved,   \* per address, how often process_message resolved it
    setLog,      \* the addresses whose event process_message has set, in order
    returned,    \* the send_and_receive calls that returned: id and value
    answers,     \* the answers given to requests so far
    pages,       \* EdgeInterface.pages: per path the Page object (the n-th created), 0 if none
    routes,      \* paths the Flask app has a URL rule for
    running,     \* EdgeInterface.server has been started
    errors,      \* exceptions raised by calls of the interface so far (history)
    everLoaded,  \* the load event has been set at least once (history)
    waitRet,     \* returns of wait_for_page_load so far (history)
    sub,         \* the Page object at "/p": its interval, its load flag, the Queue
                 \* objects of its Postman (the last is the page's) and, per Queue
                 \* object, the entries put (history)
    cycle,       \* main.intervals: the next() calls made on it so far
    bus,         \* the IEDatabus object, the thread in start() and the MQTT thread
    owed         \* ids of the commands the page has taken that ask for a response
                 \* it has not posted yet (the browser's side)

limits == << budget, quota >>

vars == << pc, todo, cont, lv, queues, has_loaded, interval, callbacks, on_load,
           live, used, in_waiting, result, signaled, nput, enqLog, deqLog, invalAt, ngot,
           hookRuns, clicks, limits, nops, ngets, posted, nresolved, setLog, returned, answers,
           pages, routes, running, errors, everLoaded, waitRet, sub, owed, bus, cycle >>

page == << has_loaded, interval, callbacks, on_load >>
exchanges == << in_waiting, result, signaled >>
qvars == << queues, nput, enqLog, deqLog, invalAt, ngot >>
ids == << live, used >>
hist == << hookRuns, clicks, posted, nresolved, setLog, returned, answers >>
registry == << pages, routes, running, errors >>
site == << registry, everLoaded, waitRet, sub, owed, bus, cycle >>

\* Ids of PLC tags, and values they take.
TagIds == {"t1", "t2"}
TagVals == {1, 2}

\* IEDatabus.__init__ (ie_databus.py lines 78-81): no tags, no headers, the
\* event not set; start() not called, the MQTT thread not in a callback.
\* hdrAt and valAt are the numbers of the messages that populated the
\* headers and that first built the tags (history, 0 for none).
NewBus ==
    [pc |-> "init", mq |-> "idle", tag_headers |-> {}, tags |-> {}, ready |-> FALSE,
     nmsg |-> 0, hdrAt |-> 0, valAt |-> 0, raised |-> 0]

\* Page.__init__ and Postman.__init__ for the page at "/p": the interval
\* 100, the event not set, one empty Queue.
NewPage ==
    [interval |-> DefaultInterval, has_loaded |-> FALSE,
     queues |-> << << >> >>, log |-> << << >> >>]

\* main.py line 113: the id of the button.
IntervalButton == "update_interval_button"

\* main.py line 76: intervals = itertools.cycle([75, 50, 25, 10, 100])
CycleVals == << 75, 50, 25, 10, 100 >>

\* next(intervals), for an iterator next() has been called on n times.
next_interval(n) == CycleVals[(n % Len(CycleVals)) + 1]

\* Page.set_button_text (lines 390-392) for the text f'{interval}ms': the
\* script sent, f'document.getElementById("{tag_id}").value = "{text}";'.
set_button_text(tag_id, i) ==
    javascript("document.getElementById(\"" \o tag_id \o "\").value = \""
                 \o ToString(i) \o "ms\";")

\* Page.set_image_base64 (lines 437-438, filetype 'jpg') and set_image_src
\* (line 419): the script sent.
set_image_base64(tag_id, base64_str) ==
    javascript("document.getElementById(\"" \o tag_id \o "\").src = \""
                 \o "data:image/jpg;base64, " \o base64_str \o "\";")

\* The call of set_button_text with the interval the page stores then
\* (main.py line 82).
LabelOp == [op |-> "label", cmd |-> Command("", None), v |-> 0, tag |-> IntervalButton]

\* main.py lines 10-12 and robots.py lines 28-32: the three robots, each
\* with its flag in actives and the switches of its plot_config, as they
\* are when the program starts; default_plots[i] stands for the base64
\* string of the plot of robot i.
Robots == 1..3
RobotStart == [active |-> FALSE, history |-> FALSE, coords |-> TRUE, axis |-> FALSE]
RobotsStart == [i \in Robots |-> RobotStart]
default_plots(i) == "default_plots[" \o ToString(i - 1) \o "]"

\* main.py lines 47-57: the statement for one toggle of robot i.
toggle_js(i, t_id, on) ==
    "document.getElementById(\"r0" \o ToString(i) \o "_" \o t_id \o "\").classList."
      \o (IF on THEN "add" ELSE "remove") \o "(\"active\");"

\* main.py lines 45-57 for robot i: the four statements, joined by ' '.
robot_js(rs, i) ==
    toggle_js(i, "t_active", rs[i].active) \o " "
      \o toggle_js(i, "t_history", rs[i].history) \o " "
      \o toggle_js(i, "t_coords", rs[i].coords) \o " "
      \o toggle_js(i, "t_axis", rs[i].axis)

\* main.py lines 38-40: set_image_base64 for every robot that is not active.
RECURSIVE default_plot_sends(_, _)
default_plot_sends(rs, i) ==
    IF i > Len(rs) THEN << >>
    ELSE (IF rs[i].active THEN << >>
          ELSE << SendOp(set_image_base64("r0" \o ToString(i) \o "_plot", default_plots(i))) >>)
         \o default_plot_sends(rs, i + 1)

\* main.on_load (main.py lines 33-58) for robots rs: set_button_text with
\* the interval the getter returns then (line 35), the default plots of the
\* robots that are not active (lines 38-40), and evaluate_javascript
\* without output for the toggles (line 58).
main_on_load(rs) ==
    << LabelOp >> \o default_plot_sends(rs, 1)
      \o << SendOp(javascript(robot_js(rs, 1) \o " " \o robot_js(rs, 2) \o " "
                                \o robot_js(rs, 3))) >>

\* The hook main.py assigns (line 103), with the robots as they start; the
\* toggles, which change them, are not followed.
MainOnLoad == main_on_load(RobotsStart)

\* Postman.__init__, Page.__init__, but for the hook
Objects ==
    /\ bus = NewBus
    /\ cycle = 0
    /\ todo = [t \in Threads |-> << >>]
    /\ cont = [t \in Threads |-> "idle"]
    /\ lv = [t \in Threads |-> NoLocal]
    /\ queues = << << >> >>
    /\ has_loaded = FALSE
    /\ interval = DefaultInterval
    /\ callbacks = {}
    /\ live = {}
    /\ used = {}
    /\ in_waiting = {}
    /\ result = [i \in IdPool |-> None]
    /\ signaled = [i \in IdPool |-> FALSE]
    /\ nput = 0
    /\ enqLog = << << >> >>
    /\ deqLog = << << >> >>
    /\ invalAt = << 0 >>
    /\ ngot = 0
    /\ hookRuns = 0
    /\ clicks = 0
    /\ nops = 0
    /\ ngets = 0
    /\ posted = [i \in IdPool |-> {}]
    /\ nresolved = [i \in IdPool |-> 0]
    /\ setLog = << >>
    /\ returned = {}
    /\ answers = {}
    /\ errors = {}
    /\ everLoaded = FALSE
    /\ waitRet = 0
    /\ sub = NewPage
    /\ owed = {}

\* Postman.__init__ and Page.__init__, whose hook does nothing (line 281,
\* self.on_load = lambda: None).
Construct == Objects /\ on_load = << >>

\* The thread that sets the interface up (the main thread of main.py): the
\* calls of add_page and start_server are its.  The other application
\* thread is one it starts when start_server has returned (main.py makes
\* every call to a page after line 104).
SetupThread == "a1"

\* No thread has called anything yet.
AllIdle == pc = [t \in Threads |-> "idle"]

\* start_server, line 552, is done and line 553 has been reached: the
\* server thread is started, and the thread that called start_server has
\* found the flag of the page at "/" clear (line 341) and is blocked.
ServerStarted ==
    /\ running = TRUE
    /\ pc = [t \in Threads |-> IF t = SetupThread THEN "wait_load" ELSE "idle"]

\* main.py lines 102-104, up to line 553 of start_server: a page is added
\* at "/", the server thread is started, and the main thread waits for the
\* page to load (line 553), where it stays until the first POST sets the
\* flag.
Started ==
    /\ pages = [p \in Paths |-> IF p = "/" THEN 1 ELSE 0]
    /\ routes = {"/"}
    /\ ServerStarted

\* main.py lines 102-104, inside start_server: the page is added at "/",
\* its hook is main.on_load (line 103), and the main thread waits for the
\* page to load.
Setup == Objects /\ on_load = MainOnLoad /\ Started

Init == Setup /\ budget = MaxOps /\ quota = MaxSends

\* An interface whose page at "/" keeps the hook of Page.__init__ (line
\* 281), inside start_server: the page is added (lines 582-587), the server
\* thread is started (line 552), and the caller waits for the page to load
\* (line 553).
PageServed == Construct /\ Started

(* --------------------------------------------------------------- helpers *)

\* The Queue object self.outgoing_packet_queue names now.
CurQ == Len(queues)

\* (AnyIds: an id source that may repeat the id of a live object.)
\* id(self) of a new object: any address no live object holds.  Addresses no
\* object has had yet are interchangeable, so the least of them stands for
\* all.
AnyIds == IdPool

\* The addresses free for a new object.
FreeIds == IdPool \ live

\* A thread that is about to create an EventLoopResponse.
Creating(t) ==
    \/ pc[t] \in {"get_buf", "sub_get_buf"}
    \/ pc[t] = "run" /\ Head(todo[t]).op \in {"send", "sar", "send_at"}
    \/ t \in AppThreads /\ pc[t] = "idle" /\ nops < budget

\* The pool never runs out: when an object is about to be created there is
\* an address no object has had yet.
PoolLeft == (\E t \in Threads : Creating(t)) => IdPool \ used # {}
NewIds == {i \in FreeIds : i \in used \/ \A j \in FreeIds \ used : i <= j}

\* An entry of a Queue: the packet, with its serial number (history).
Entry(pkt) == [pkt |-> pkt, sn |-> nput + 1]

\* A put at the head of the queue.
QueuePush(qs, q, e) == [qs EXCEPT ![q] = << e >> \o @]

\* Queue.put on the Queue object q.
QueuePut(qs, q, e) == [qs EXCEPT ![q] = Append(@, e)]

\* The Queue objects still referenced once thread t has let go of the one it
\* read: the page's, and those other threads have read.  A Queue object
\* nothing references is released, and what it held is gone with it.
HeldBut(t) == {CurQ} \cup {lv[u].qref : u \in Threads \ {t}}
Collect(qs, held) == [q \in DOMAIN qs |-> IF q \in held THEN qs[q] ELSE << >>]

\* A Queue of one slot: a put on a Queue that holds an entry blocks.
queue_one_slot(q) == Len(q) >= 1

\* Postman.__init__, Queue(): maxsize 0, the Queue is never full and a put
\* never blocks.
queue_full(q) == FALSE

\* Thread t puts a packet on the Queue object it read, and lets go of it.
Put(t, pkt) ==
    /\ ~queue_full(queues[lv[t].qref])
    /\ queues' = Collect(QueuePut(queues, lv[t].qref, Entry(pkt)), HeldBut(t))
    /\ enqLog' = Collect([enqLog EXCEPT ![lv[t].qref] = Append(@, Entry(pkt))], HeldBut(t))
    /\ deqLog' = Collect(deqLog, HeldBut(t))
    /\ nput' = nput + 1
    /\ UNCHANGED << invalAt, ngot >>

\* Idle threads of one kind are interchangeable: an operation starts on the
\* first idle one.
Rank(t) == CHOOSE i \in 1..Len(ThreadOrder) : ThreadOrder[i] = t
Kind(t) == IF t \in AppThreads THEN AppThreads ELSE Workers
MayStart(t) ==
    /\ pc[t] = "idle"
    /\ nops < budget
    /\ t \in AppThreads \ {SetupThread} => waitRet > 0
    /\ \A u \in Kind(t) : Rank(u) < Rank(t) => pc[u] # "idle"

\* A worker has answered its request.
Answered(w, kind, pkt, q, sn, fresh) ==
    /\ answers' = answers \cup {Answer(lv[w].msg, kind, pkt, q, sn, fresh)}
    /\ lv' = [lv EXCEPT ![w] = NoLocal]
    /\ cont' = [cont EXCEPT ![w] = "idle"]
    /\ pc' = [pc EXCEPT ![w] = "idle"]

(* ------------------------------------------------- Postman, for a caller *)

\* A reload that keeps what was queued: the new Queue starts with the
\* entries of the old one.
keep_outgoing_packets(qs) == Append(qs, qs[Len(qs)])

\* Postman.invalidate_outgoing_packets: self.outgoing_packet_queue = Queue()
invalidate_outgoing_packets(qs) == Append(qs, << >>)

\* A look at the oldest entry that leaves it in the queue.
get_keeping(q) == [got |-> Head(q), rest |-> q]

\* A stack instead of a queue: the newest entry is taken.
get_newest(q) == [got |-> q[Len(q)], rest |-> SubSeq(q, 1, Len(q) - 1)]

\* Postman.get_new_packet, on a Queue that holds something: get_nowait
\* takes the oldest entry.
get_nowait(q) == [got |-> Head(q), rest |-> Tail(q)]

\* A lookup that ignores the id: any waiting exchange is taken.
match_any(waiting, id) == CHOOSE j \in waiting : TRUE

\* Postman.process_message: match = self.in_waiting[message.id]
match(waiting, id) == id

\* An application thread calls a method of the page.
AppOps ==
    {SendOp(javascript(s)) : s \in Scripts}
    \cup {SarOp(javascript(s)) : s \in Scripts}
    \cup {SetIntervalOp(i) : i \in Intervals}
    \cup {OnButtonClickOp(g) : g \in Tags}

\* A send a request handler makes (in the hook, in a callback, at the end
\* of a GET) creates one of the EventLoopResponse objects the handlers of
\* the run may create; a buffer packet of a GET is another.
Uses(t, o) == IF t \in Workers /\ o.op \in {"send", "send_at"} THEN 1 ELSE 0

\* The page operation a thread is about to run: the next one of its todo
\* list, or, for an idle application thread, a call it makes now.
Starting(t) ==
    IF pc[t] = "run" THEN {o \in {Head(todo[t])} : Uses(t, o) <= quota}
    ELSE IF t \in AppThreads /\ MayStart(t) THEN AppOps
    ELSE {}

Begun(t, o) == IF pc[t] = "run" THEN todo[t] ELSE << o >>

Count(t) ==
    /\ nops' = IF pc[t] = "run" THEN nops ELSE nops + 1
    /\ quota' = IF pc[t] = "run" THEN quota - Uses(t, Head(todo[t])) ELSE quota
    /\ UNCHANGED << ngets, budget, site >>

\* Where a thread goes when the page operation o it runs is done.
AfterOp(t, o) == IF Len(Begun(t, o)) > 1 THEN "run" ELSE cont[t]

\* Where a thread goes when the page operation at the head of its todo
\* list, which it is inside of, is done.
AfterHead(t) == IF Len(todo[t]) > 1 THEN "run" ELSE cont[t]

\* Page.on_button_click: self._callbacks[tag_id] = callback
RunOnButtonClick(t) ==
    \E o \in Starting(t) :
      /\ o.op = "on_button_click"
      /\ callbacks' = callbacks \cup {o.tag}
      /\ pc' = [pc EXCEPT ![t] = AfterOp(t, o)]
      /\ todo' = [todo EXCEPT ![t] = Tail(Begun(t, o))]
      /\ Count(t)
      /\ UNCHANGED << cont, lv, has_loaded, interval, on_load, ids, exchanges,
                      qvars, hist >>

\* Page.update_interval setter: self._update_interval = interval, and then
\* self._postman.send(Command.update_interval(interval)).
RunSetInterval(t) ==
    \E o \in Starting(t) :
      /\ o.op = "set_interval"
      /\ interval' = o.v
      /\ todo' = [todo EXCEPT ![t] =
                    << SendOp(update_interval_cmd(o.v)) >> \o Tail(Begun(t, o))]
      /\ pc' = [pc EXCEPT ![t] = "run"]
      /\ Count(t)
      /\ UNCHANGED << cont, lv, has_loaded, callbacks, on_load, ids, exchanges,
                      qvars, hist >>

\* Postman.send, line 197 and the attribute read of line 198: the response
\* object gets its address, and self.outgoing_packet_queue is read.
RunSend(t) ==
    \E o \in Starting(t) :
      /\ o.op = "send"
      /\ \E i \in NewIds :
           /\ live' = live \cup {i}
           /\ used' = used \cup {i}
           /\ lv' = [lv EXCEPT ![t].id = i, ![t].qref = CurQ]
      /\ todo' = [todo EXCEPT ![t] = Begun(t, o)]
      /\ pc' = [pc EXCEPT ![t] = "send_put"]
      /\ Count(t)
      /\ UNCHANGED << cont, page, exchanges, qvars, hist >>

\* Postman.send, line 198: put(response.to_json()) on the Queue read, and the
\* return, which releases the response object.  The send that ends a GET
\* (line 335) is followed by line 336, return render_template(...).
SendPut(t) ==
    /\ pc[t] = "send_put"
    /\ Put(t, to_json(Head(todo[t]).cmd, lv[t].id, FALSE))
    /\ live' = live \ {lv[t].id}
    /\ todo' = [todo EXCEPT ![t] = Tail(@)]
    /\ IF AfterHead(t) = "get_render"
         THEN Answered(t, "html", nothing(SomeId), 0, 0, FALSE)
         ELSE /\ pc' = [pc EXCEPT ![t] = AfterHead(t)]
              /\ lv' = [lv EXCEPT ![t].id = 0, ![t].qref = 0,
                                  ![t].did = IF cont[t] = "global_next"
                                               THEN Append(@, "/") ELSE @]
              /\ UNCHANGED << cont, answers >>
    /\ UNCHANGED << page, used, exchanges, nops, ngets, limits, site, hookRuns, clicks, posted,
                    nresolved, setLog, returned >>

\* Postman.send_and_receive, line 187 and the attribute read of line 188.
RunSar(t) ==
    \E o \in Starting(t) :
      /\ o.op = "sar"
      /\ \E i \in NewIds :
           /\ live' = live \cup {i}
           /\ used' = used \cup {i}
           /\ lv' = [lv EXCEPT ![t].id = i, ![t].qref = CurQ]
           /\ result' = [result EXCEPT ![i] = None]
           /\ signaled' = [signaled EXCEPT ![i] = FALSE]
      /\ todo' = [todo EXCEPT ![t] = Begun(t, o)]
      /\ pc' = [pc EXCEPT ![t] = "sar_put"]
      /\ Count(t)
      /\ UNCHANGED << cont, page, in_waiting, qvars, hist >>

\* line 188: self.outgoing_packet_queue.put(response.to_json())
SarPut(t) ==
    /\ pc[t] = "sar_put"
    /\ Put(t, to_json(Head(todo[t]).cmd, lv[t].id, TRUE))
    /\ lv' = [lv EXCEPT ![t].qref = 0]
    /\ pc' = [pc EXCEPT ![t] = "sar_reg"]
    /\ UNCHANGED << todo, cont, page, ids, exchanges, hist, nops, ngets, limits, site >>

\* line 189: self.in_waiting[response.id] = response
SarRegister(t) ==
    /\ pc[t] = "sar_reg"
    /\ in_waiting' = in_waiting \cup {lv[t].id}
    /\ pc' = [pc EXCEPT ![t] = "sar_wait"]
    /\ UNCHANGED << todo, cont, lv, page, ids, result, signaled, qvars, hist, nops, ngets, limits, site >>

\* A wait that does not wait.
no_wait(flag) == TRUE

\* Event.wait(): the caller goes on at once iff the flag is set.
event_wait(flag) == flag

\* line 190: response.event.wait()
SarWait(t) ==
    /\ pc[t] = "sar_wait"
    /\ event_wait(signaled[lv[t].id])
    /\ pc' = [pc EXCEPT ![t] = "sar_ret"]
    /\ UNCHANGED << todo, cont, lv, page, ids, exchanges, qvars, hist, nops, ngets, limits, site >>

\* line 191: return response.result
SarReturn(t) ==
    /\ pc[t] = "sar_ret"
    /\ returned' = returned \cup {[id |-> lv[t].id, val |-> result[lv[t].id]]}
    /\ lv' = [lv EXCEPT ![t].id = 0, ![t].qref = 0]
    /\ pc' = [pc EXCEPT ![t] = AfterHead(t)]
    /\ todo' = [todo EXCEPT ![t] = Tail(@)]
    /\ UNCHANGED << cont, page, ids, exchanges, qvars, hookRuns, clicks,
                    posted, nresolved, setLog, answers, nops, ngets, limits, site >>

(* ------------------------------------------------------- Page.on_request *)

\* Requests for the page at "/" arrive once the server runs and the URL
\* rule of the page exists (EdgeInterface.add_page, start_server).
ServingAt(path) == running /\ path \in routes
Serving == ServingAt("/")

\* The JSON a POST carries: a poll tick, a click, or anything else, which
\* the page takes for a reply.  Addresses no object has had yet are
\* interchangeable in a reply too.
ReplyIds == {i \in IdPool : i \in used \/ \A j \in IdPool \ used : i <= j}
PollMsgs == {[NoMsg EXCEPT !.topic = "command_loop"]}
ClickMsgs == {[NoMsg EXCEPT !.topic = "onclick", !.tag = g] : g \in Tags}
ReplyMsgs == {[NoMsg EXCEPT !.topic = "result", !.payload = p, !.id = i] :
                p \in ReplyPayloads, i \in ReplyIds}

\* A dispatch that takes a click for a reply too.
IsNoPoll(m) == m.topic # "command_loop"

\* lines 318-326: what is neither a poll tick nor a click is a reply.
IsReply(m) == m.topic \notin {"command_loop", "onclick"}

\* POST, line 312: if not self._has_loaded_event.is_set()
PostCheck(w, msgs) ==
    /\ MayStart(w)
    /\ Serving
    /\ nops' = nops + 1
    /\ UNCHANGED << ngets, limits, site >>
    /\ \E m \in msgs : lv' = [lv EXCEPT ![w].msg = m]
    /\ pc' = [pc EXCEPT ![w] = IF has_loaded THEN "dispatch" ELSE "post_set"]
    /\ UNCHANGED << todo, cont, page, ids, exchanges, qvars, hist >>

\* A request the page makes on its own, whatever the run's operations: the
\* first idle handler thread takes it.
MayServe(w) ==
    /\ pc[w] = "idle"
    /\ Serving
    /\ \A u \in Workers : Rank(u) < Rank(w) => pc[u] # "idle"

\* The command loop of the page: a poll tick is posted, again and again
\* (POST, line 312).
\* A handler inside lines 312-314: it found the flag unset and sets it, or
\* has set it and runs the hook.
Loading(w) ==
    \/ pc[w] \in {"post_set", "post_hook"}
    \/ cont[w] = "dispatch" /\ pc[w] \in {"run", "send_put"}

\* No handler is loading the page.
Quiet == \A u \in Workers : ~Loading(u)

\* Every request of the page has been answered.
Answers == \A u \in Workers : pc[u] = "idle"

\* The page posts its ticks and replies one at a time, the next one when the
\* last one has been answered.
PostTick(w) ==
    /\ MayServe(w)
    /\ Answers
    /\ \E m \in PollMsgs : lv' = [lv EXCEPT ![w].msg = m]
    /\ pc' = [pc EXCEPT ![w] = IF has_loaded THEN "dispatch" ELSE "post_set"]
    /\ UNCHANGED << todo, cont, page, ids, exchanges, qvars, hist, nops, ngets, limits, site >>

\* The page answers a command it has taken: it posts one reply with the id
\* of that command (POST, line 312).
PostReply(w) ==
    /\ MayServe(w)
    /\ Answers
    /\ \E i \in owed, p \in ReplyPayloads :
         /\ lv' = [lv EXCEPT ![w].msg = [NoMsg EXCEPT !.topic = "result", !.payload = p, !.id = i]]
         /\ owed' = owed \ {i}
    /\ pc' = [pc EXCEPT ![w] = IF has_loaded THEN "dispatch" ELSE "post_set"]
    /\ UNCHANGED << todo, cont, page, ids, exchanges, qvars, hist, nops, ngets, limits,
                    registry, everLoaded, waitRet, sub, bus, cycle >>

\* line 313: self._has_loaded_event.set(), which wakes the threads blocked
\* in wait()
PostSet(w) ==
    /\ pc[w] = "post_set"
    /\ has_loaded' = TRUE
    /\ everLoaded' = TRUE
    /\ pc' = [t \in Threads |->
                IF t = w THEN "post_hook"
                ELSE IF pc[t] = "wait_load" THEN "wait_woken"
                ELSE pc[t]]
    /\ UNCHANGED << todo, cont, lv, interval, callbacks, on_load, ids, exchanges, qvars,
                    hist, nops, ngets, limits, registry, waitRet, sub, owed, bus, cycle >>

\* line 314: self.on_load() is called
PostLoad(w) ==
    /\ pc[w] = "post_hook"
    /\ hookRuns' = hookRuns + 1
    /\ todo' = [todo EXCEPT ![w] = on_load]
    /\ cont' = [cont EXCEPT ![w] = "dispatch"]
    /\ pc' = [pc EXCEPT ![w] = IF on_load = << >> THEN "dispatch" ELSE "run"]
    /\ UNCHANGED << lv, page, ids, exchanges, qvars, clicks, posted, nresolved, setLog,
                    returned, answers, nops, ngets, limits, site >>

\* lines 318-320: topic command_loop; get_new_packet reads
\* self.outgoing_packet_queue (line 227).
PollRef(w) ==
    /\ pc[w] = "dispatch"
    /\ lv[w].msg.topic = "command_loop"
    /\ lv' = [lv EXCEPT ![w].qref = CurQ]
    /\ pc' = [pc EXCEPT ![w] = "get_nowait"]
    /\ UNCHANGED << todo, cont, page, ids, exchanges, qvars, hist, nops, ngets, limits, site >>

\* Postman.get_new_packet, lines 226-229: get_nowait() on the Queue read, or
\* on Empty the packet of a fresh nothing().
PollGet(w) ==
    /\ pc[w] = "get_nowait"
    /\ LET q == lv[w].qref IN
         IF queues[q] # << >>
           THEN /\ queues' = Collect([queues EXCEPT ![q] = get_nowait(queues[q]).rest],
                                      HeldBut(w))
                /\ deqLog' = Collect([deqLog EXCEPT ![q] =
                                        Append(@, get_nowait(queues[q]).got)], HeldBut(w))
                /\ Answered(w, "poll", get_nowait(queues[q]).got.pkt, q,
                            get_nowait(queues[q]).got.sn, enqLog[q] = << >>)
                /\ ngot' = ngot + 1
                /\ owed' = IF get_nowait(queues[q]).got.pkt.should_respond
                             THEN owed \cup {get_nowait(queues[q]).got.pkt.id}
                             ELSE owed
           ELSE /\ Answered(w, "poll", nothing(SomeId), q, 0, enqLog[q] = << >>)
                /\ queues' = Collect(queues, HeldBut(w))
                /\ deqLog' = Collect(deqLog, HeldBut(w))
                /\ UNCHANGED << ngot, owed >>
    /\ enqLog' = Collect(enqLog, HeldBut(w))
    /\ UNCHANGED << todo, page, ids, exchanges, nput, invalAt, hookRuns, clicks,
                    posted, nresolved, setLog, returned, nops, ngets, limits, registry,
                    everLoaded, waitRet, sub, bus, cycle >>

\* A lookup that finds a callback for every element id.
any_callback(cbs, tag) == TRUE

\* line 323: message.payload['id'] in self._callbacks.keys()
has_callback(cbs, tag) == tag \in cbs

\* lines 321-324 and 328: topic onclick; the callback registered for the
\* posted element id is called, if there is one.  What the callback does
\* is the application's; the call is counted.
Click(w) ==
    /\ pc[w] = "dispatch"
    /\ lv[w].msg.topic = "onclick"
    /\ clicks' = IF has_callback(callbacks, lv[w].msg.tag) THEN clicks + 1 ELSE clicks
    /\ Answered(w, "ack", nothing(SomeId), 0, 0, FALSE)
    /\ UNCHANGED << todo, page, ids, exchanges, qvars, hookRuns, posted,
                    nresolved, setLog, returned, nops, ngets, limits, site >>

\* lines 325-326, Postman.process_message lines 211-212: the lookup, which
\* raises KeyError for an id that is no key, and match.result = payload.
ProcessMessage(w) ==
    /\ pc[w] = "dispatch"
    /\ IsReply(lv[w].msg)
    /\ IF lv[w].msg.id \in in_waiting
         THEN /\ result' = [result EXCEPT ![match(in_waiting, lv[w].msg.id)] =
                                             lv[w].msg.payload]
              /\ posted' = [posted EXCEPT ![lv[w].msg.id] = @ \cup {lv[w].msg.payload}]
              /\ lv' = [lv EXCEPT ![w].id = match(in_waiting, lv[w].msg.id)]
              /\ pc' = [pc EXCEPT ![w] = "pm_set"]
              /\ UNCHANGED << cont, answers >>
         ELSE /\ Answered(w, "KeyError", nothing(SomeId), 0, 0, FALSE)
              /\ UNCHANGED << result, posted >>
    /\ UNCHANGED << todo, page, ids, in_waiting, signaled, qvars, hookRuns,
                    clicks, nresolved, setLog, returned, nops, ngets, limits, site >>

\* Postman.process_message line 213: match.event.set(); then line 328, the
\* packet of a fresh nothing() is the answer.
ProcessSet(w) ==
    /\ pc[w] = "pm_set"
    /\ signaled' = [signaled EXCEPT ![lv[w].id] = TRUE]
    /\ nresolved' = [nresolved EXCEPT ![lv[w].id] = @ + 1]
    /\ setLog' = Append(setLog, lv[w].id)
    /\ Answered(w, "ack", nothing(SomeId), 0, 0, FALSE)
    /\ UNCHANGED << todo, page, ids, in_waiting, result, qvars, hookRuns,
                    clicks, posted, returned, nops, ngets, limits, site >>

\* GET, line 331: self._has_loaded_event.clear()
GetClear(w) ==
    /\ MayStart(w)
    /\ Serving
    /\ ngets < MaxGets
    /\ ngets' = ngets + 1
    /\ UNCHANGED << limits, site >>
    /\ nops' = nops + 1
    /\ has_loaded' = FALSE
    /\ hookRuns' = 0
    /\ lv' = [lv EXCEPT ![w].msg = GetMsg]
    /\ pc' = [pc EXCEPT ![w] = "get_inval"]
    /\ UNCHANGED << todo, cont, interval, callbacks, on_load, ids, exchanges,
                    qvars, clicks, posted, nresolved, setLog, returned, answers >>

\* line 332: self._postman.invalidate_outgoing_packets()
GetInvalidate(w) ==
    /\ pc[w] = "get_inval"
    /\ LET held == {CurQ + 1} \cup {lv[u].qref : u \in Threads} IN
         /\ queues' = Collect(invalidate_outgoing_packets(queues), held)
         /\ enqLog' = Collect(Append(enqLog, << >>), held)
         /\ deqLog' = Collect(Append(deqLog, << >>), held)
    /\ invalAt' = Append(invalAt, nput)
    /\ UNCHANGED ngot
    /\ pc' = [pc EXCEPT ![w] = "get_buf"]
    /\ UNCHANGED << todo, cont, lv, page, ids, exchanges, nput, hist, nops, ngets, limits, site >>

\* line 333, Postman.send_buffer_packets line 241, up to the call of put:
\* self.outgoing_packet_queue is read, and EventLoopResponse.nothing()
\* gets its address and is turned into its packet.  The object is a
\* temporary: it is released before put is called, so its address is free
\* again while the packet is still to be put.
GetBufRef(w) ==
    /\ pc[w] = "get_buf"
    /\ quota > 0
    /\ quota' = quota - 1
    /\ \E i \in NewIds :
         /\ used' = used \cup {i}
         /\ lv' = [lv EXCEPT ![w].qref = CurQ, ![w].id = i]
    /\ pc' = [pc EXCEPT ![w] = "get_buf_put"]
    /\ UNCHANGED << todo, cont, page, live, exchanges, qvars, hist, nops, ngets, budget, site >>

\* line 333: self._postman.send_buffer_packets(2)
BufferPackets == 2

\* Postman.send_buffer_packets line 241: the put of that packet
GetBufPut(w) ==
    /\ pc[w] = "get_buf_put"
    /\ Put(w, nothing(lv[w].id))
    /\ lv' = [lv EXCEPT ![w].k = IF @ + 1 < BufferPackets THEN @ + 1 ELSE 0,
                        ![w].qref = 0, ![w].id = 0]
    /\ pc' = [pc EXCEPT ![w] =
                IF lv[w].k + 1 < BufferPackets THEN "get_buf" ELSE "get_int"]
    /\ UNCHANGED << todo, cont, page, ids, exchanges, hist, nops, ngets, limits, site >>

\* line 335: the read of self._update_interval, handed to the setter
GetReadInterval(w) ==
    /\ pc[w] = "get_int"
    /\ todo' = [todo EXCEPT ![w] = << SetIntervalOp(interval) >>]
    /\ cont' = [cont EXCEPT ![w] = "get_render"]
    /\ pc' = [pc EXCEPT ![w] = "run"]
    /\ UNCHANGED << lv, page, ids, exchanges, qvars, hist, nops, ngets, limits, site >>

(* --------------------------------------------------------- EdgeInterface *)

\* A check that takes every path for new.
never_registered(pgs, path) == FALSE

\* add_page, line 579: subdirectory in self.pages.keys()
is_registered(pgs, path) == pgs[path] # 0

\* A check that is content with any page.
has_any_page(pgs) == \E p \in Paths : pgs[p] # 0

\* start_server, line 549: '/' in self.pages.keys()
has_main_page(pgs) == pgs["/"] # 0

\* An exception a call of the interface ends with.
Raised(op, err, path) == [op |-> op, err |-> err, path |-> path]

\* EdgeInterface.add_page(subdirectory, ...) is called.
AddPage(t) ==
    /\ t = SetupThread
    /\ MayStart(t)
    /\ \E path \in Paths : lv' = [lv EXCEPT ![t].msg = [NoMsg EXCEPT !.tag = path]]
    /\ pc' = [pc EXCEPT ![t] = "add_check"]
    /\ nops' = nops + 1
    /\ UNCHANGED << todo, cont, page, ids, exchanges, qvars, hist, ngets, limits, site >>

\* lines 579-580: raise PageAlreadyExists() for a path that has a page
AddCheck(t) ==
    /\ pc[t] = "add_check"
    /\ IF is_registered(pages, lv[t].msg.tag)
         THEN /\ errors' = errors \cup {Raised("add_page", "PageAlreadyExists", lv[t].msg.tag)}
              /\ lv' = [lv EXCEPT ![t] = NoLocal]
              /\ pc' = [pc EXCEPT ![t] = "idle"]
         ELSE /\ pc' = [pc EXCEPT ![t] = "add_rule"]
              /\ UNCHANGED << lv, errors >>
    /\ UNCHANGED << todo, cont, page, ids, exchanges, qvars, hist, nops, ngets, limits,
                    pages, routes, running, everLoaded, waitRet, sub, owed, bus, cycle >>

\* lines 582-586: page = Page(...); self.app.add_url_rule(subdirectory, ...)
AddRule(t) ==
    /\ pc[t] = "add_rule"
    /\ routes' = routes \cup {lv[t].msg.tag}
    /\ pc' = [pc EXCEPT ![t] = "add_store"]
    /\ UNCHANGED << todo, cont, lv, page, ids, exchanges, qvars, hist, nops, ngets, limits,
                    pages, running, errors, everLoaded, waitRet, sub, owed, bus, cycle >>

\* line 587: self.pages[subdirectory] = page
AddStore(t) ==
    /\ pc[t] = "add_store"
    /\ pages' = [pages EXCEPT ![lv[t].msg.tag] =
                   Cardinality({p \in Paths : pages[p] # 0}) + 1]
    /\ lv' = [lv EXCEPT ![t] = NoLocal]
    /\ pc' = [pc EXCEPT ![t] = "idle"]
    /\ UNCHANGED << todo, cont, page, ids, exchanges, qvars, hist, nops, ngets, limits,
                    routes, running, errors, everLoaded, waitRet, sub, owed, bus, cycle >>

\* main.py line 103, interface.pages['/'].on_load = on_load, between add_page
\* and start_server.
SetOnLoad(t) ==
    /\ t = SetupThread
    /\ pc[t] = "idle"
    /\ pages["/"] # 0
    /\ ~running
    /\ on_load = << >>
    /\ on_load' = MainOnLoad
    /\ UNCHANGED << pc, todo, cont, lv, has_loaded, interval, callbacks, ids, exchanges,
                    qvars, hist, nops, ngets, limits, site >>

\* EdgeInterface.start_server: lines 549-550 raise MissingMainPage();
\* line 552, self.server.start(), raises RuntimeError for a thread that has
\* been started; line 553 then calls wait_for_page_load of the page at '/'.
StartServer(t) ==
    /\ t = SetupThread
    /\ MayStart(t)
    /\ nops' = nops + 1
    /\ IF ~has_main_page(pages)
         THEN /\ errors' = errors \cup {Raised("start_server", "MissingMainPage", "/")}
              /\ UNCHANGED << pc, running >>
         ELSE IF running
         THEN /\ errors' = errors \cup {Raised("start_server", "RuntimeError", "/")}
              /\ UNCHANGED << pc, running >>
         ELSE /\ running' = TRUE
              /\ pc' = [pc EXCEPT ![t] = "wait_check"]
              /\ UNCHANGED errors
    /\ UNCHANGED << todo, cont, lv, page, ids, exchanges, qvars, hist, ngets, limits,
                    pages, routes, everLoaded, waitRet, sub, owed, bus, cycle >>

\* Page.wait_for_page_load is called on the page at '/'.
WaitForLoad(t) ==
    /\ t \in AppThreads
    /\ MayStart(t)
    /\ pages["/"] # 0
    /\ nops' = nops + 1
    /\ pc' = [pc EXCEPT ![t] = "wait_check"]
    /\ UNCHANGED << todo, cont, lv, page, ids, exchanges, qvars, hist, ngets, limits, site >>

\* line 341, self._has_loaded_event.wait(): with the flag set the call goes
\* on, otherwise the thread blocks until a set() wakes it.
WaitCheck(t) ==
    /\ pc[t] = "wait_check"
    /\ pc' = [pc EXCEPT ![t] = IF event_wait(has_loaded) THEN "wait_ret" ELSE "wait_load"]
    /\ UNCHANGED << todo, cont, lv, page, ids, exchanges, qvars, hist, nops, ngets, limits, site >>

\* wait_for_page_load returns (and with it start_server).
WaitReturn(t) ==
    /\ pc[t] \in {"wait_ret", "wait_woken"}
    /\ waitRet' = waitRet + 1
    /\ pc' = [pc EXCEPT ![t] = "idle"]
    /\ UNCHANGED << todo, cont, lv, page, ids, exchanges, qvars, hist, nops, ngets, limits,
                    registry, everLoaded, sub, owed, bus, cycle >>

\* len(self.pages)
pages_len(pgs) == Cardinality({p \in Paths : pgs[p] # 0})

\* set_global_update_interval, line 599: self.pages.values(), the pages in
\* the order they were added.
pages_values(pgs) == [k \in 1..pages_len(pgs) |-> CHOOSE p \in Paths : pgs[p] = k]

\* The setter call of line 600 for the page at path.
SetterOf(path, i) == IF path = "/" THEN SetIntervalOp(i) ELSE SetIntervalAt(path, i)

\* EdgeInterface.set_global_update_interval(interval) is called: line 599
\* makes the iterator of self.pages.values(), which keeps the size the dict
\* has then.  The call and the puts completed when it was made are kept in
\* the locals (history).
SetGlobal(t) ==
    /\ t \in AppThreads
    /\ MayStart(t)
    /\ nops' = nops + 1
    /\ \E i \in Intervals :
         lv' = [lv EXCEPT ![t].msg = [NoMsg EXCEPT !.topic = "set_global", !.id = i],
                          ![t].k = nput,
                          ![t].n = pages_len(pages)]
    /\ cont' = [cont EXCEPT ![t] = "global_next"]
    /\ pc' = [pc EXCEPT ![t] = "global_next"]
    /\ UNCHANGED << todo, page, ids, exchanges, qvars, hist, ngets, limits, site >>

\* line 599, the next() of the loop on the live dict: RuntimeError
\* (dictionary changed size during iteration) when add_page has stored a
\* page since the iterator was made; otherwise the next page, whose setter
\* line 600 calls, or the end of the loop.
GlobalNext(t) ==
    /\ pc[t] = "global_next"
    /\ IF pages_len(pages) # lv[t].n
         THEN /\ errors' = errors \cup {Raised("set_global_update_interval", "RuntimeError", "")}
              /\ lv' = [lv EXCEPT ![t] = NoLocal]
              /\ cont' = [cont EXCEPT ![t] = "idle"]
              /\ pc' = [pc EXCEPT ![t] = "idle"]
              /\ UNCHANGED todo
         ELSE IF Len(lv[t].did) < lv[t].n
         THEN /\ todo' = [todo EXCEPT ![t] =
                           << SetterOf(pages_values(pages)[Len(lv[t].did) + 1], lv[t].msg.id) >>]
              /\ pc' = [pc EXCEPT ![t] = "run"]
              /\ UNCHANGED << lv, cont, errors >>
         ELSE /\ pc' = [pc EXCEPT ![t] = "global_ret"]
              /\ UNCHANGED << todo, lv, cont, errors >>
    /\ UNCHANGED << page, ids, exchanges, qvars, hist, nops, ngets, limits,
                    pages, routes, running, everLoaded, waitRet, sub, owed, bus, cycle >>

\* line 600 for the page at "/p", Page.update_interval setter line 490:
\* self._update_interval = interval; the send of line 491 is still to run.
RunSetIntervalAt(t) ==
    /\ pc[t] = "run"
    /\ Head(todo[t]).op = "set_interval_at"
    /\ sub' = [sub EXCEPT !.interval = Head(todo[t]).v]
    /\ todo' = [todo EXCEPT ![t] =
                  << SendAtOp(Head(@).tag, update_interval_cmd(Head(@).v)) >> \o Tail(@)]
    /\ UNCHANGED << pc, cont, lv, page, ids, exchanges, qvars, hist, nops, ngets, limits,
                    registry, everLoaded, waitRet, owed, bus, cycle >>

\* Postman.send of the page at "/p", line 197 and the attribute read of
\* line 198.
RunSendAt(t) ==
    /\ pc[t] = "run"
    /\ Head(todo[t]).op = "send_at"
    /\ Uses(t, Head(todo[t])) <= quota
    /\ quota' = quota - Uses(t, Head(todo[t]))
    /\ \E i \in NewIds :
         /\ live' = live \cup {i}
         /\ used' = used \cup {i}
         /\ lv' = [lv EXCEPT ![t].id = i, ![t].sref = Len(sub.queues)]
    /\ pc' = [pc EXCEPT ![t] = "sub_send_put"]
    /\ UNCHANGED << todo, cont, page, exchanges, qvars, hist, nops, ngets, budget, site >>

\* A put on the Queue object thread t read of the page at "/p".
SubPut(t, pkt) ==
    /\ sub' = [sub EXCEPT !.queues[lv[t].sref] = Append(@, Entry(pkt)),
                          !.log[lv[t].sref] = Append(@, Entry(pkt))]
    /\ nput' = nput + 1
    /\ UNCHANGED << queues, enqLog, deqLog, invalAt, ngot >>

\* Postman.send of the page at "/p", line 198: the put, and the return,
\* which releases the response object; the setter is done for that page.
\* The send that ends a GET (line 335) is followed by line 336.
SubSendPut(t) ==
    /\ pc[t] = "sub_send_put"
    /\ SubPut(t, to_json(Head(todo[t]).cmd, lv[t].id, FALSE))
    /\ live' = live \ {lv[t].id}
    /\ todo' = [todo EXCEPT ![t] = Tail(@)]
    /\ IF AfterHead(t) = "get_render"
         THEN Answered(t, "html", nothing(SomeId), 0, 0, FALSE)
         ELSE /\ pc' = [pc EXCEPT ![t] = AfterHead(t)]
              /\ lv' = [lv EXCEPT ![t].id = 0, ![t].sref = 0,
                                  ![t].did = IF cont[t] = "global_next"
                                               THEN Append(@, Head(todo[t]).tag) ELSE @]
              /\ UNCHANGED << cont, answers >>
    /\ UNCHANGED << page, used, exchanges, nops, ngets, limits, registry, everLoaded,
                    waitRet, owed, bus, cycle, hookRuns, clicks, posted, nresolved, setLog,
                    returned >>

\* set_global_update_interval returns.
GlobalReturn(t) ==
    /\ pc[t] = "global_ret"
    /\ lv' = [lv EXCEPT ![t] = NoLocal]
    /\ cont' = [cont EXCEPT ![t] = "idle"]
    /\ pc' = [pc EXCEPT ![t] = "idle"]
    /\ UNCHANGED << todo, page, ids, exchanges, qvars, hist, nops, ngets, limits, site >>

SettingAll(t) ==
    \/ SetGlobal(t) \/ GlobalNext(t)
    \/ RunSetIntervalAt(t) \/ RunSendAt(t) \/ SubSendPut(t)
    \/ GlobalReturn(t)

Adding(t) == AddPage(t) \/ AddCheck(t) \/ AddRule(t) \/ AddStore(t)

\* The wait of line 341 and its return.
Woken(t) == WaitCheck(t) \/ WaitReturn(t)

Waiting(t) == WaitForLoad(t) \/ Woken(t)

\* start_server of main.py line 104 is woken by the first POST and returns.
StartReturns == WaitReturn(SetupThread)

(* ------------------------------------- Page.on_request, the page at "/p" *)

\* The state of the interface that a request for the page at "/p" leaves
\* alone.
beside == << registry, everLoaded, waitRet, owed, bus, cycle >>

\* POST for "/p", line 312: if not self._has_loaded_event.is_set()
SubPostCheck(w, msgs) ==
    /\ MayStart(w)
    /\ ServingAt("/p")
    /\ nops' = nops + 1
    /\ \E m \in msgs : lv' = [lv EXCEPT ![w].msg = At(m)]
    /\ pc' = [pc EXCEPT ![w] = IF sub.has_loaded THEN "sub_dispatch" ELSE "sub_post_set"]
    /\ UNCHANGED << todo, cont, page, ids, exchanges, qvars, hist, ngets, limits, site >>

\* lines 313-314: the event of that page is set, and its on_load is called,
\* the default of Page.__init__ (lambda: None).
SubPostSet(w) ==
    /\ pc[w] = "sub_post_set"
    /\ sub' = [sub EXCEPT !.has_loaded = TRUE]
    /\ pc' = [pc EXCEPT ![w] = "sub_dispatch"]
    /\ UNCHANGED << todo, cont, lv, page, ids, exchanges, qvars, hist, nops, ngets, limits,
                    beside >>

\* lines 318-320 and 227: the attribute read of get_new_packet
SubPollRef(w) ==
    /\ pc[w] = "sub_dispatch"
    /\ lv[w].msg.topic = "command_loop"
    /\ lv' = [lv EXCEPT ![w].sref = Len(sub.queues)]
    /\ pc' = [pc EXCEPT ![w] = "sub_get_nowait"]
    /\ UNCHANGED << todo, cont, page, ids, exchanges, qvars, hist, nops, ngets, limits, site >>

\* Postman.get_new_packet of that page, lines 226-229
SubPollGet(w) ==
    /\ pc[w] = "sub_get_nowait"
    /\ LET q == lv[w].sref IN
         IF sub.queues[q] # << >>
           THEN /\ sub' = [sub EXCEPT !.queues[q] = get_nowait(sub.queues[q]).rest]
                /\ Answered(w, "poll", get_nowait(sub.queues[q]).got.pkt, q,
                            get_nowait(sub.queues[q]).got.sn, sub.log[q] = << >>)
           ELSE /\ Answered(w, "poll", nothing(SomeId), q, 0, sub.log[q] = << >>)
                /\ UNCHANGED sub
    /\ UNCHANGED << todo, page, ids, exchanges, qvars, hookRuns, clicks, posted, nresolved, setLog,
                    returned, nops, ngets, limits, beside >>

\* lines 321-328 for that page, which has no callback and no exchange: a
\* click calls nothing and is answered with the no-op packet; for a reply
\* the lookup of line 211 raises KeyError.
SubOther(w) ==
    /\ pc[w] = "sub_dispatch"
    /\ lv[w].msg.topic # "command_loop"
    /\ IF IsReply(lv[w].msg)
         THEN Answered(w, "KeyError", nothing(SomeId), 0, 0, FALSE)
         ELSE Answered(w, "ack", nothing(SomeId), 0, 0, FALSE)
    /\ UNCHANGED << todo, page, ids, exchanges, qvars, hookRuns, clicks, posted, nresolved, setLog,
                    returned, nops, ngets, limits, site >>

\* GET for "/p", line 331: self._has_loaded_event.clear()
SubGetClear(w) ==
    /\ MayStart(w)
    /\ ServingAt("/p")
    /\ ngets < MaxGets
    /\ ngets' = ngets + 1
    /\ nops' = nops + 1
    /\ sub' = [sub EXCEPT !.has_loaded = FALSE]
    /\ lv' = [lv EXCEPT ![w].msg = At(GetMsg)]
    /\ pc' = [pc EXCEPT ![w] = "sub_get_inval"]
    /\ UNCHANGED << todo, cont, page, ids, exchanges, qvars, hist, limits, beside >>

\* line 332: the Postman of that page gets a new Queue
SubGetInvalidate(w) ==
    /\ pc[w] = "sub_get_inval"
    /\ sub' = [sub EXCEPT !.queues = invalidate_outgoing_packets(@),
                          !.log = Append(@, << >>)]
    /\ pc' = [pc EXCEPT ![w] = "sub_get_buf"]
    /\ UNCHANGED << todo, cont, lv, page, ids, exchanges, qvars, hist, nops, ngets, limits,
                    beside >>

\* line 333, Postman.send_buffer_packets line 241, up to the call of put:
\* the attribute read, and the temporary nothing() with its address
SubGetBufRef(w) ==
    /\ pc[w] = "sub_get_buf"
    /\ quota > 0
    /\ quota' = quota - 1
    /\ \E i \in NewIds :
         /\ used' = used \cup {i}
         /\ lv' = [lv EXCEPT ![w].sref = Len(sub.queues), ![w].id = i]
    /\ pc' = [pc EXCEPT ![w] = "sub_get_buf_put"]
    /\ UNCHANGED << todo, cont, page, live, exchanges, qvars, hist, nops, ngets, budget, site >>

\* Postman.send_buffer_packets line 241: the put of that packet
SubGetBufPut(w) ==
    /\ pc[w] = "sub_get_buf_put"
    /\ SubPut(w, nothing(lv[w].id))
    /\ lv' = [lv EXCEPT ![w].k = IF @ + 1 < BufferPackets THEN @ + 1 ELSE 0,
                        ![w].sref = 0, ![w].id = 0]
    /\ pc' = [pc EXCEPT ![w] =
                IF lv[w].k + 1 < BufferPackets THEN "sub_get_buf" ELSE "sub_get_int"]
    /\ UNCHANGED << todo, cont, page, ids, exchanges, hist, nops, ngets, limits, beside >>

\* line 335: the read of self._update_interval of that page, handed to its
\* setter
SubGetReadInterval(w) ==
    /\ pc[w] = "sub_get_int"
    /\ todo' = [todo EXCEPT ![w] = << SetIntervalAt("/p", sub.interval) >>]
    /\ cont' = [cont EXCEPT ![w] = "get_render"]
    /\ pc' = [pc EXCEPT ![w] = "run"]
    /\ UNCHANGED << lv, page, ids, exchanges, qvars, hist, nops, ngets, limits, site >>

\* A POST for the page at "/p" past line 312.
SubPost(w) == SubPostSet(w) \/ SubPollRef(w) \/ SubPollGet(w) \/ SubOther(w)

\* A GET for the page at "/p", past line 331.
SubReload(w) ==
    \/ SubGetInvalidate(w)
    \/ SubGetBufRef(w)
    \/ SubGetBufPut(w)
    \/ SubGetReadInterval(w)
    \/ RunSetIntervalAt(w) \/ RunSendAt(w) \/ SubSendPut(w)

(* ------------------------------------------------ main: the interval button *)

\* main.py line 113: on_button_click('update_interval_button', ...), when
\* start_server has returned (the databus of line 106 is not followed here).
RegisterIntervalButton(t) ==
    /\ t = SetupThread
    /\ MayStart(t)
    /\ IntervalButton \notin callbacks
    /\ callbacks' = callbacks \cup {IntervalButton}
    /\ nops' = nops + 1
    /\ UNCHANGED << pc, todo, cont, lv, has_loaded, interval, on_load, ids, exchanges,
                    qvars, hist, ngets, limits, site >>

\* Page.on_request lines 321-324 for a click on the button, and
\* on_update_interval_click line 80: new_interval = next(intervals).  The
\* setter call of line 81 and the label of line 82 are still to run.
ClickInterval(w) ==
    /\ pc[w] = "dispatch"
    /\ lv[w].msg.topic = "onclick"
    /\ lv[w].msg.tag = IntervalButton
    /\ has_callback(callbacks, IntervalButton)
    /\ cycle' = cycle + 1
    /\ lv' = [lv EXCEPT ![w].k = next_interval(cycle)]
    /\ todo' = [todo EXCEPT ![w] = << SetIntervalOp(next_interval(cycle)), LabelOp >>]
    /\ cont' = [cont EXCEPT ![w] = "click_done"]
    /\ pc' = [pc EXCEPT ![w] = "run"]
    /\ clicks' = clicks + 1
    /\ UNCHANGED << page, ids, exchanges, qvars, hookRuns, posted, nresolved, setLog, returned,
                    answers, nops, ngets, limits, registry, everLoaded, waitRet, sub,
                    owed, bus >>

\* main.py lines 35 and 82: the getter of update_interval is read, and
\* set_button_text is called with it.
RunLabel(w) ==
    /\ pc[w] = "run"
    /\ Head(todo[w]).op = "label"
    /\ todo' = [todo EXCEPT ![w] =
                  << SendOp(set_button_text(IntervalButton, interval)) >> \o Tail(@)]
    /\ UNCHANGED << pc, cont, lv, page, ids, exchanges, qvars, hist, nops, ngets, limits, site >>

\* The callback has returned: line 328, the answer is the no-op packet.
ClickDone(w) ==
    /\ pc[w] = "click_done"
    /\ Answered(w, "ack", nothing(SomeId), 0, 0, FALSE)
    /\ UNCHANGED << todo, page, ids, exchanges, qvars, hookRuns, clicks, posted,
                    nresolved, setLog, returned, nops, ngets, limits, site >>

\* A click on an element without a callback.
ClickMiss(w) == ~has_callback(callbacks, lv[w].msg.tag) /\ Click(w)

(* -------------------------------------------------------------- IEDatabus *)

\* The variables of the interface and its page.
edge == << pc, todo, cont, lv, page, ids, exchanges, qvars, hist, nops, ngets, limits,
           registry, everLoaded, waitRet, sub, owed, cycle >>

\* The decoded payload of an MQTT message: whether it is on the write
\* topic, the ids under connections[0].dataPoints[0].dataPointDefinitions
\* (has false: the key is missing), and the ids and the value under vals.
BusMsgs ==
    [write : BOOLEAN,
     dpds : [has : BOOLEAN, ids : SUBSET TagIds],
     vals : [has : BOOLEAN, ids : SUBSET TagIds, val : TagVals]]

\* A check that takes the headers for empty every time.
always_empty(headers) == TRUE

\* _on_message, line 159: len(self._tag_headers) == 0
headers_empty(headers) == headers = {}

\* main.py line 106, when start_server (line 104) has returned, and
\* IEDatabus.start, line 119: self._client.loop_start(); from now on the
\* MQTT thread calls _on_message.
BusStart ==
    /\ bus.pc = "init"
    /\ pc[SetupThread] = "idle" /\ waitRet > 0
    /\ bus' = [bus EXCEPT !.pc = "waiting"]
    /\ UNCHANGED edge

\* IEDatabus.start, line 120: self._ready_event.wait(), and the return.
BusStartReturn ==
    /\ bus.pc = "waiting"
    /\ event_wait(bus.ready)
    /\ bus' = [bus EXCEPT !.pc = "returned"]
    /\ UNCHANGED edge

\* _on_message, lines 156-179: a message on the write topic is dropped;
\* with no headers yet, the data point definitions of the message, if it
\* has any, become the headers; with headers, the tags are built from vals
\* (KeyError for a missing vals or an id without header) and stored.
OnMessage ==
    /\ bus.pc # "init"
    /\ bus.mq = "idle"
    /\ bus.nmsg < MaxMsgs
    /\ \E m \in BusMsgs :
         LET n == bus.nmsg + 1 IN
           IF m.write THEN bus' = [bus EXCEPT !.nmsg = n]
           ELSE IF headers_empty(bus.tag_headers)
             THEN IF m.dpds.has
                    THEN bus' = [bus EXCEPT !.nmsg = n,
                                   !.tag_headers = @ \cup m.dpds.ids,
                                   !.hdrAt = IF m.dpds.ids # {} /\ bus.hdrAt = 0 THEN n ELSE @]
                    ELSE bus' = [bus EXCEPT !.nmsg = n]
           ELSE IF m.vals.has /\ m.vals.ids \subseteq bus.tag_headers
             THEN bus' = [bus EXCEPT !.nmsg = n,
                            !.tags = {[id |-> i, val |-> m.vals.val] : i \in m.vals.ids},
                            !.valAt = IF @ = 0 THEN n ELSE @,
                            !.mq = "set_ready"]
           ELSE bus' = [bus EXCEPT !.nmsg = n, !.raised = n]
    /\ UNCHANGED edge

\* _on_message, line 180: self._ready_event.set()
BusSetReady ==
    /\ bus.mq = "set_ready"
    /\ bus' = [bus EXCEPT !.ready = TRUE, !.mq = "idle"]
    /\ UNCHANGED edge

(* ---------------------------------------------------------- specification *)

Sending(t) == RunSend(t) \/ SendPut(t)

Calling(t) == RunSar(t) \/ SarPut(t) \/ SarRegister(t)

Returning(t) == SarWait(t) \/ SarReturn(t)

Setting(t) == RunOnButtonClick(t) \/ RunSetInterval(t)

Polling(w) == PostSet(w) \/ PostLoad(w) \/ PollRef(w) \/ PollGet(w)

Replying(w) == ProcessMessage(w) \/ ProcessSet(w)

Get(w) ==
    \/ GetClear(w)
    \/ GetInvalidate(w)
    \/ GetBufRef(w)
    \/ GetBufPut(w)
    \/ GetReadInterval(w)

\* A GET is being handled.
GetRunning == \E w \in Workers : lv[w].msg.topic = "GET"

\* The page is reloaded when no reload of it is being handled.
OneGet(w) == ~GetRunning /\ GetClear(w)

\* A reload, one at a time.
Reload(w) ==
    \/ OneGet(w)
    \/ GetInvalidate(w)
    \/ GetBufRef(w)
    \/ GetBufPut(w)
    \/ GetReadInterval(w)

\* The page posts a poll tick when the one before has been answered.
OneTick(w) ==
    /\ \A u \in Workers : lv[u].msg.topic # "command_loop"
    /\ PostCheck(w, PollMsgs)

\* Everything: any call, any request.
Next ==
    \/ StartReturns
    \/ \E t \in Threads : Sending(t) \/ Setting(t)
    \/ \E t \in AppThreads : Calling(t) \/ Returning(t)
    \/ \E w \in Workers :
         \/ PostCheck(w, PollMsgs \cup ClickMsgs \cup ReplyMsgs)
         \/ Polling(w) \/ RunLabel(w) \/ Click(w) \/ Replying(w) \/ Get(w)

Spec == Init /\ [][Next]_vars

\* Senders and poll ticks, no reload.
NextQueue ==
    \/ StartReturns
    \/ \E t \in Threads : Sending(t)
    \/ \E t \in AppThreads : Calling(t)
    \/ \E w \in Workers : PostCheck(w, PollMsgs) \/ Polling(w) \/ RunLabel(w)

InitQueue == Setup /\ budget = MaxQueueOps /\ quota = MaxQueueSends

SpecQueue == InitQueue /\ [][NextQueue]_vars

\* The longer runs with reloads: the page makes a request when the one
\* before it has been answered.  In the shorter runs its requests overlap.
Serial == budget > MaxOverlapOps

\* A poll tick or a reload the page makes, one tick and one reload at a time.
TickOrGet(w) == (Serial => Answers) /\ (OneTick(w) \/ OneGet(w))

\* A thread that sends and calls send_and_receive, poll ticks and a reload,
\* on a page that keeps the hook of Page.__init__: only the reload makes a
\* request handler send.
NextReload ==
    \/ StartReturns
    \/ \E t \in {SetupThread} \cup Workers : Sending(t)
    \/ Calling(SetupThread)
    \/ \E w \in Workers :
         \/ TickOrGet(w) \/ Polling(w)
         \/ GetInvalidate(w) \/ GetBufRef(w) \/ GetBufPut(w) \/ GetReadInterval(w)
         \/ RunSetInterval(w)

InitReload ==
    /\ PageServed
    /\ budget \in {MaxOverlapOps, MaxReloadOps}
    /\ quota = MaxReloadSends

SpecReload == InitReload /\ [][NextReload]_vars

\* Senders and callers of send_and_receive, poll ticks and replies, on a
\* page that keeps the hook of Page.__init__: no request handler sends.
NextReply ==
    \/ StartReturns
    \/ \E t \in AppThreads : Sending(t) \/ Calling(t) \/ Returning(t)
    \/ \E w \in Workers :
         \/ PostCheck(w, PollMsgs \cup ReplyMsgs)
         \/ Polling(w) \/ Replying(w)

InitReply == PageServed /\ budget = MaxReplyOps /\ quota = 0

SpecReply == InitReply /\ [][NextReply]_vars

\* Reloads and poll ticks: nothing sends but the GET itself.
NextTicks ==
    \/ StartReturns
    \/ \E w \in Workers :
           \/ PostCheck(w, PollMsgs) \/ Polling(w) \/ Get(w)
           \/ RunSetInterval(w) \/ RunLabel(w) \/ Sending(w)

InitTicks == Setup /\ budget = MaxOps /\ quota = MaxTickSends

SpecTicks == InitTicks /\ [][NextTicks]_vars

\* The start-up of the interface: pages are added, the server is started,
\* and the page at "/" is loaded and reloaded.
NextStart ==
    \/ \E t \in AppThreads : Adding(t) \/ SetOnLoad(t) \/ StartServer(t) \/ Waiting(t)
    \/ \E w \in Workers :
         \/ PostCheck(w, PollMsgs) \/ Polling(w) \/ Get(w)
         \/ RunSetInterval(w) \/ RunLabel(w) \/ Sending(w)

\* EdgeInterface.__init__: no page, the server thread not started.
InitStart ==
    /\ Construct
    /\ AllIdle
    /\ pages = [p \in Paths |-> 0]
    /\ routes = {}
    /\ running = FALSE
    /\ budget = MaxStartOps
    /\ quota = MaxStartSends

SpecStart == InitStart /\ [][NextStart]_vars

\* Clicks and settings: callbacks are registered, the interval is set,
\* commands are sent, and the page posts poll ticks and clicks.
NextPage ==
    \/ StartReturns
    \/ \E t \in Threads : Sending(t) \/ Setting(t)
    \/ \E t \in AppThreads : Calling(t)
    \/ \E w \in Workers :
         \/ PostCheck(w, PollMsgs \cup ClickMsgs)
         \/ Polling(w) \/ RunLabel(w) \/ Click(w)

InitPage == Setup /\ budget = MaxPageOps /\ quota = MaxPageSends

SpecPage == InitPage /\ [][NextPage]_vars

\* Callers that block, next to senders, poll ticks, replies and reloads,
\* one reload at a time.
NextBlocked ==
    \/ StartReturns
    \/ \E t \in AppThreads : Sending(t) \/ Calling(t) \/ Returning(t)
    \/ \E w \in Workers :
         \/ PostCheck(w, PollMsgs \cup ReplyMsgs)
         \/ Polling(w) \/ Replying(w) \/ Reload(w)
         \/ RunSetInterval(w) \/ RunLabel(w) \/ Sending(w)

InitBlocked == Setup /\ budget = MaxBlockOps /\ quota = MaxBlockSends

SpecBlocked == InitBlocked /\ [][NextBlocked]_vars

\* A request for one of the two pages, a poll tick or a reload, made when
\* the request before it has been answered.
OneRequest(w) ==
    /\ Answers
    /\ \/ PostCheck(w, PollMsgs) \/ GetClear(w)
       \/ SubPostCheck(w, PollMsgs \cup ClickMsgs \cup ReplyMsgs) \/ SubGetClear(w)

\* The interval of all pages is set, next to add_page and to the poll ticks
\* and reloads of the page at "/" and of the page at "/p".
NextGlobal ==
    \/ StartReturns
    \/ Adding(SetupThread)
    \/ \E t \in AppThreads : SettingAll(t)
    \/ \E t \in Threads : RunSetInterval(t) \/ Sending(t)
    \/ \E w \in Workers :
         \/ OneRequest(w) \/ Polling(w)
         \/ GetInvalidate(w) \/ GetBufRef(w) \/ GetBufPut(w) \/ GetReadInterval(w)
         \/ SubPost(w) \/ SubReload(w)

\* The registries add_page leaves before start_server is called: the page
\* at "/" alone, or with the page at "/p" added before or after it.
Registries ==
    { [p \in Paths |-> IF p = "/" THEN 1 ELSE 0],
      [p \in Paths |-> IF p = "/" THEN 1 ELSE 2],
      [p \in Paths |-> IF p = "/" THEN 2 ELSE 1] }

InitGlobal ==
    /\ Construct
    /\ pages \in Registries
    /\ routes = {p \in Paths : pages[p] # 0}
    /\ ServerStarted
    /\ budget = MaxGlobalOps
    /\ quota = MaxGlobalSends

SpecGlobal == InitGlobal /\ [][NextGlobal]_vars

\* A page that keeps polling and answers every command that asks for it;
\* no reload, an on_load that does nothing.
\* The application makes its call between two requests of the loaded page.
CallLoaded(t) == has_loaded /\ Answers /\ RunSar(t)

NextLive ==
    \/ StartReturns
    \/ \E t \in AppThreads :
         CallLoaded(t) \/ SarPut(t) \/ SarRegister(t) \/ Returning(t)
    \/ \E w \in Workers :
         \/ PostTick(w) \/ PostReply(w) \/ Polling(w) \/ Replying(w)
         \/ RunLabel(w) \/ Sending(w)

InitLive == Setup /\ budget = MaxLiveOps /\ quota = MaxLiveSends

\* Every thread that can take its next step takes it; the page's ticks and
\* replies are served whenever a handler thread gets free.
FairLive ==
    /\ \A t \in AppThreads :
         WF_vars(SendPut(t) \/ SarPut(t) \/ SarRegister(t) \/ Returning(t))
    /\ \A w \in Workers :
         WF_vars(Polling(w) \/ Replying(w) \/ RunLabel(w) \/ Sending(w))
    /\ WF_vars(StartReturns)
    /\ SF_vars(\E w \in Workers : PostTick(w))
    /\ SF_vars(\E w \in Workers : PostReply(w))

SpecLive == InitLive /\ [][NextLive]_vars /\ FairLive

\* Reloads and poll ticks, one at a time, of a page with the hook of
\* main.py: nothing sends but the GET and the hook.
NextHook ==
    \/ StartReturns
    \/ \E w \in Workers :
           \/ OneTick(w) \/ Polling(w) \/ Get(w)
           \/ RunSetInterval(w) \/ RunLabel(w) \/ Sending(w)

InitHook == Setup /\ budget = MaxHookOps /\ quota = MaxHookSends

SpecHook == InitHook /\ [][NextHook]_vars

\* Every kind of POST, next to callers and registered callbacks.
NextDispatch ==
    \/ StartReturns
    \/ \E t \in AppThreads : Calling(t) \/ Returning(t) \/ RunOnButtonClick(t)
    \/ \E w \in Workers :
         \/ PostCheck(w, PollMsgs \cup ClickMsgs \cup ReplyMsgs)
         \/ Polling(w) \/ RunLabel(w) \/ Sending(w) \/ Click(w) \/ Replying(w)

InitDispatch == Setup /\ budget = MaxDispatchOps /\ quota = MaxDispatchSends

SpecDispatch == InitDispatch /\ [][NextDispatch]_vars

\* The databus: the page is loaded, start_server returns, and then start()
\* and the messages of the broker.
NextBus ==
    \/ StartReturns
    \/ \E w \in Workers :
         PostCheck(w, PollMsgs) \/ Polling(w) \/ RunLabel(w) \/ Sending(w)
    \/ BusStart \/ BusStartReturn \/ OnMessage \/ BusSetReady

InitBus == Setup /\ budget = MaxBusOps /\ quota = MaxBusSends

SpecBus == InitBus /\ [][NextBus]_vars

\* The interval button of main.py: it is registered, and the page posts
\* clicks on it.
\* The button is clicked while no handler is loading the page.
ClickButton(w) ==
    /\ Quiet
    /\ PostCheck(w, {[NoMsg EXCEPT !.topic = "onclick", !.tag = IntervalButton]})

NextCycle ==
    \/ StartReturns
    \/ RegisterIntervalButton(SetupThread)
    \/ \E w \in Workers :
         \/ ClickButton(w)
         \/ PostSet(w) \/ PostLoad(w) \/ ClickInterval(w) \/ ClickMiss(w)
         \/ RunSetInterval(w) \/ RunLabel(w) \/ Sending(w) \/ ClickDone(w)

InitCycle == Setup /\ budget = MaxCycleOps /\ quota = MaxCycleSends

SpecCycle == InitCycle /\ [][NextCycle]_vars

(* ---------------------------------------------------------------- claims *)

\* C1: a send_and_receive call that returns, returns the payload of a posted
\* reply whose id is the id of the call's exchange; a reply with another id
\* neither sets the event of that exchange nor writes its result.
C1_ReplyCorrelation ==
    /\ \A r \in returned : r.val \in posted[r.id]
    /\ \A t \in AppThreads : pc[t] = "sar_ret" => posted[lv[t].id] # {}
    /\ \A i \in in_waiting :
         /\ result[i] \in posted[i] \cup {None}
         /\ signaled[i] => posted[i] # {}

\* A call has returned its reply while another exchange, which that reply
\* did not name, is still pending and untouched.
C1_Witness ==
    \E r \in returned :
      /\ r.val # None
      /\ \E j \in in_waiting \ {r.id} : result[j] = None /\ ~signaled[j]

\* C2: without a reload, poll ticks take the commands in the order their
\* puts completed: what has been taken, followed by what is still queued, is
\* what was put, and every answer of a poll tick that carries a command
\* carries a different one.
C2_FifoDelivery ==
    /\ \A q \in DOMAIN queues : deqLog[q] \o queues[q] = enqLog[q]
    /\ ngot = Len(deqLog[CurQ])
    /\ {a.sn : a \in {b \in answers : b.sn > 0}} =
         {deqLog[CurQ][k].sn : k \in 1..Len(deqLog[CurQ])}

\* Poll ticks have taken two commands, one of send and one of
\* send_and_receive.
C2_Witness ==
    /\ Len(deqLog[CurQ]) >= 2
    /\ deqLog[CurQ][1].pkt.should_respond # deqLog[CurQ][2].pkt.should_respond

\* C3: in a load cycle the on-load hook is invoked once, also when POST
\* handlers run concurrently (here: after a completed GET, at most once).
C3_HookOnce == (ngets >= 1 /\ ~GetRunning) => hookRuns <= 1

\* C4: a POST that is a reply with an id that is no key of in_waiting is
\* answered without raising.
C4_UnknownReplyAnswered == \A a \in answers : a.kind # "KeyError"

\* C5: no exchange is resolved twice.
C5_ResolvedOnce == \A i \in IdPool : nresolved[i] <= 1

\* C6: every entry of the outgoing queue that asks for a response has its id
\* registered in in_waiting.
C6_RegisteredBeforeQueued ==
    \A q \in DOMAIN queues : \A k \in 1..Len(queues[q]) :
      queues[q][k].pkt.should_respond => queues[q][k].pkt.id \in in_waiting

\* C7: a command whose put completed before a reload replaced the queue is
\* never answered to a poll tick that starts after that reload, and no
\* command is answered twice, whatever sends overlap the reload.
C7_StaleNeverDelivered ==
    /\ \A a \in answers : (a.kind = "poll" /\ a.sn > 0) => a.sn > invalAt[a.q]
    /\ Cardinality({a.sn : a \in {b \in answers : b.sn > 0}}) = ngot

\* A poll tick has been answered with a command from the queue a reload then
\* replaced, and a poll tick that started after the reload with a command an
\* application thread put after the reload.
C7_Witness ==
    \E a \in answers, b \in answers :
      /\ a.kind = "poll" /\ a.q = 1 /\ a.sn > 0
      /\ b.kind = "poll" /\ b.q >= 2 /\ invalAt[b.q] >= 1 /\ b.sn > invalAt[b.q]
      /\ b.pkt.topic \notin {"nothing", "update_interval"}

\* C8: a poll tick on the queue of a reload on which nothing has been put
\* is answered with the no-op packet, whatever was queued before.
C8_FreshQueueYieldsNothing ==
    \A a \in answers :
      (a.kind = "poll" /\ a.q >= 2 /\ a.fresh) =>
        /\ a.sn = 0
        /\ a.pkt.topic = "nothing"
        /\ ~a.pkt.should_respond
        /\ a.pkt.payload = None

\* Such a poll tick has been answered, after commands had been put on the
\* queue the reload replaced.
C8_Witness ==
    \E a \in answers :
      a.kind = "poll" /\ a.q >= 2 /\ a.fresh /\ invalAt[a.q] >= 1

\* C9: once a send_and_receive call has returned, the id of its exchange is
\* no key of in_waiting.
C9_PendingOnlyBlocked == \A r \in returned : r.id \notin in_waiting

\* A GET, or a POST that is a poll tick, a click, or a reply to a
\* registered exchange.
Served(m) == (m.topic # "GET" /\ IsReply(m)) => m.id \in in_waiting

\* C10: the load flag is unset when a GET completes, set when a POST
\* completes (a poll tick, a click or a reply), and no step of an
\* application thread changes it (a thread blocked in wait_for_page_load
\* is woken by the step of the POST that sets the flag).
C10_Step ==
    /\ \A w \in Workers :
         (pc[w] # "idle" /\ pc'[w] = "idle" /\ Served(lv[w].msg)) =>
           (has_loaded' <=> lv[w].msg.topic # "GET")
    /\ \A t \in AppThreads :
         (pc'[t] # pc[t] /\ pc[t] # "wait_load") => has_loaded' = has_loaded

C10_LoadFlagMachine == [][C10_Step]_vars

\* The packets of a queue, without the ids of their exchanges.
Shape(q) ==
    [k \in 1..Len(q) |->
       [topic |-> q[k].pkt.topic, should_respond |-> q[k].pkt.should_respond,
        payload |-> q[k].pkt.payload]]

\* C11: when a GET completes and nothing else has sent meanwhile, the
\* outgoing queue is two no-op packets and the update_interval command of
\* the configured interval, the interval is what it was, and the load flag
\* is unset.
C11_Step ==
    \A w \in Workers :
      (lv[w].msg.topic = "GET" /\ pc[w] # "idle" /\ pc'[w] = "idle") =>
        /\ Shape(queues'[Len(queues')]) =
             << [topic |-> "nothing", should_respond |-> FALSE, payload |-> None],
                [topic |-> "nothing", should_respond |-> FALSE, payload |-> None],
                [topic |-> "update_interval", should_respond |-> FALSE,
                 payload |-> IntVal(interval)] >>
        /\ interval' = interval
        /\ ~has_loaded'

C11_ReloadLeavesBufferAndInterval == [][C11_Step]_vars

\* The step of get_new_packet by worker w on the Queue object it read:
\* from an empty queue the answer is the no-op packet and the queue stays
\* empty; otherwise the answer is the oldest entry, which is removed; the
\* pending map is as it was.
C12_Poll(w) ==
    LET q == lv[w].qref IN
      /\ in_waiting' = in_waiting
      /\ IF queues[q] = << >>
           THEN /\ queues'[q] = << >>
                /\ \E a \in answers' :
                     /\ a.kind = "poll" /\ a.q = q /\ a.sn = 0
                     /\ a.pkt.topic = "nothing" /\ ~a.pkt.should_respond
           ELSE /\ queues'[q] = Tail(queues[q])
                /\ \E a \in answers' \ answers :
                     /\ a.kind = "poll" /\ a.q = q
                     /\ a.sn = Head(queues[q]).sn /\ a.pkt = Head(queues[q]).pkt

\* C12: get_new_packet never blocks; on an empty queue it answers the no-op
\* packet and changes nothing, on a queue that holds something it removes
\* and answers exactly the oldest entry.
C12_DequeueNext ==
    /\ [](\A w \in Workers : pc[w] = "get_nowait" => ENABLED PollGet(w))
    /\ [][\A w \in Workers :
            (pc[w] = "get_nowait" /\ pc'[w] = "idle") => C12_Poll(w)]_vars

\* A poll tick has found the queue empty, and another has taken a command
\* while more were queued behind it.
C12_Witness ==
    /\ \E a \in answers : a.kind = "poll" /\ a.sn = 0
    /\ \E a \in answers : a.kind = "poll" /\ a.sn > 0
    /\ ngot >= 1 /\ queues[CurQ] # << >>

\* C13: the outgoing queue never holds two entries with the same id.
C13_DistinctQueueIds ==
    \A q \in DOMAIN queues : \A j, k \in 1..Len(queues[q]) :
      j # k => queues[q][j].pkt.id # queues[q][k].pkt.id

\* C14: the id of a new exchange that asks for a response is no key of
\* in_waiting, and differs from the id of every other exchange about to be
\* registered: registering it overwrites no entry.
C14_FreshPendingId ==
    \A t \in AppThreads :
      pc[t] \in {"sar_put", "sar_reg"} =>
        /\ lv[t].id \notin in_waiting
        /\ \A u \in AppThreads \ {t} :
             pc[u] \in {"sar_put", "sar_reg"} => lv[u].id # lv[t].id

\* An exchange is about to be registered while another is pending, and its
\* id is the one a released fire-and-forget exchange had, whose packet is
\* still queued.
C14_Witness ==
    \E t \in AppThreads :
      /\ pc[t] = "sar_reg" /\ in_waiting # {}
      /\ \E k \in 1..Len(queues[CurQ]) :
           /\ queues[CurQ][k].pkt.id = lv[t].id
           /\ ~queues[CurQ][k].pkt.should_respond

\* A call of wait_for_page_load is about to return or has returned only if
\* the load event has been set by a POST.
C15_Loaded ==
    ((\E t \in AppThreads : pc[t] \in {"wait_ret", "wait_woken"}) \/ waitRet > 0)
      => everLoaded

\* With the flag set, the wait goes on to its return without blocking.
C15_Step ==
    \A t \in AppThreads :
      (pc[t] = "wait_check" /\ has_loaded /\ pc'[t] # pc[t]) => pc'[t] = "wait_ret"

\* C15: start_server, and wait_for_page_load, return only after a POST has
\* set the load flag of the page, and at once if the flag is set.
C15_StartAfterLoad == []C15_Loaded /\ [][C15_Step]_vars

\* The server has been started and a wait for the load has returned.
C15_Witness == running /\ waitRet > 0 /\ everLoaded

\* The paths that have a page.
Registered(pgs) == {p \in Paths : pgs[p] # 0}

\* What a step does to the registry: no entry is removed or replaced, no
\* URL rule is dropped; add_page for a path that has a page raises and
\* leaves pages and URL rules alone; add_page for a new path adds that path
\* and no other.
C16_Step ==
    /\ \A p \in Paths : pages[p] # 0 => pages'[p] = pages[p]
    /\ routes \subseteq routes'
    /\ \A t \in AppThreads :
         (pc[t] = "add_check" /\ pc'[t] # pc[t]) =>
           IF pages[lv[t].msg.tag] # 0
             THEN /\ pc'[t] = "idle"
                  /\ Raised("add_page", "PageAlreadyExists", lv[t].msg.tag) \in errors'
                  /\ pages' = pages /\ routes' = routes
             ELSE /\ pc'[t] = "add_rule"
                  /\ errors' = errors
    /\ \A t \in AppThreads :
         (pc[t] = "add_store" /\ pc'[t] # pc[t]) =>
           /\ pages[lv[t].msg.tag] = 0
           /\ Registered(pages') = Registered(pages) \cup {lv[t].msg.tag}
           /\ lv[t].msg.tag \in routes'

\* C16: add_page on a registered path raises PageAlreadyExists and leaves
\* the registry as it is, on a new path it adds one entry, and no entry is
\* ever removed.
C16_AddPage == [][C16_Step]_vars

\* add_page has raised for a path whose page is still the one first added.
C16_Witness ==
    \E e \in errors :
      e.op = "add_page" /\ e.err = "PageAlreadyExists" /\ pages[e.path] = 1

\* start_server that raises MissingMainPage starts nothing and blocks
\* nobody.
C17_Step ==
    Raised("start_server", "MissingMainPage", "/") \in errors' \ errors =>
      /\ pages["/"] = 0
      /\ ~running'
      /\ pc' = pc

\* C17: start_server without a page at '/' raises MissingMainPage and
\* starts no server, whatever other pages there are: the server never runs
\* without a page at '/'.
C17_RootRequired == [](running => pages["/"] # 0) /\ [][C17_Step]_vars

\* start_server has raised while another page was registered.
C17_Witness ==
    /\ Raised("start_server", "MissingMainPage", "/") \in errors
    /\ pages["/p"] # 0
    /\ ~running

\* The no-op packet, whatever id it carries.
IsNothing(pkt) == pkt.topic = "nothing" /\ ~pkt.should_respond /\ pkt.payload = None

\* The step that handles a click posted to worker w: the callback of the
\* element is called once if there is one, none is called otherwise; the
\* answer is the no-op packet, and the queue and the pending map are as
\* they were.
C18_Click(w) ==
    /\ clicks' = clicks + (IF lv[w].msg.tag \in callbacks THEN 1 ELSE 0)
    /\ \E a \in answers' :
         a.req = lv[w].msg /\ a.kind = "ack" /\ IsNothing(a.pkt)
    /\ \A a \in answers' \ answers : a.kind = "ack"
    /\ queues' = queues
    /\ in_waiting' = in_waiting

\* C18: a POST of topic onclick calls the callback registered for the
\* element exactly once, or nothing if there is none, raises nothing,
\* answers the no-op packet, and leaves the queue and the pending map alone.
C18_OnClick ==
    [][\A w \in Workers :
         (pc[w] = "dispatch" /\ lv[w].msg.topic = "onclick" /\ pc'[w] # pc[w])
           => C18_Click(w)]_vars

\* A click on an element with a callback has been handled while a command
\* was queued and an exchange was pending.
C18_Witness ==
    /\ clicks >= 1
    /\ \E a \in answers : a.req.topic = "onclick" /\ a.kind = "ack"
    /\ queues[CurQ] # << >>

\* Thread t is in the send of the interval setter.
InSetterSend(t) ==
    /\ pc[t] = "send_put"
    /\ Head(todo[t]).cmd.topic = "update_interval"

\* The setter called with v stores v; its send appends one entry at the
\* tail of the queue, the update_interval command of v that asks for no
\* response, which on an empty queue is the next to be taken.
C19_Step ==
    \A t \in Threads :
      /\ (pc[t] # "send_put" /\ pc'[t] = "run" /\ todo'[t] # todo[t]
            /\ Head(todo'[t]).cmd.topic = "update_interval")
           => interval' = Head(todo'[t]).cmd.payload.n
      /\ (InSetterSend(t) /\ pc'[t] # pc[t]) =>
           LET q == lv[t].qref
               v == Head(todo[t]).cmd.payload IN
             /\ Len(queues'[q]) = Len(queues[q]) + 1
             /\ SubSeq(queues'[q], 1, Len(queues[q])) = queues[q]
             /\ queues'[q][Len(queues'[q])].pkt.topic = "update_interval"
             /\ queues'[q][Len(queues'[q])].pkt.payload = v
             /\ ~queues'[q][Len(queues'[q])].pkt.should_respond
             /\ queues[q] = << >> => Head(queues'[q]).pkt.payload = v

\* C19: the interval setter stores the interval and appends exactly one
\* update_interval command of that interval, asking for no response, at the
\* tail of the outgoing queue.
C19_SetInterval == [][C19_Step]_vars

\* The interval has been set to 50 and a poll tick has been answered with
\* the update_interval command of 50.
C19_Witness ==
    /\ interval = 50
    /\ \E a \in answers :
         /\ a.kind = "poll" /\ a.pkt.topic = "update_interval"
         /\ a.pkt.payload = IntVal(50) /\ ~a.pkt.should_respond

\* What send does: the step that creates the exchange changes nothing of
\* the page or the postman; the step that puts appends one entry, the
\* command with should_respond false, to the queue, and changes nothing
\* else.
C20_Step ==
    \A t \in Threads :
      /\ ((pc[t] = "send_put" \/ pc'[t] = "send_put") /\ pc'[t] # pc[t]) =>
           /\ in_waiting' = in_waiting /\ result' = result /\ signaled' = signaled
           /\ has_loaded' = has_loaded /\ interval' = interval
           /\ callbacks' = callbacks
      /\ (pc'[t] = "send_put" /\ pc'[t] # pc[t]) => queues' = queues
      /\ (pc[t] = "send_put" /\ pc'[t] # pc[t]) =>
           LET q == lv[t].qref IN
             /\ Len(queues'[q]) = Len(queues[q]) + 1
             /\ SubSeq(queues'[q], 1, Len(queues[q])) = queues[q]
             /\ queues'[q][Len(queues'[q])].pkt =
                  [topic |-> Head(todo[t]).cmd.topic, id |-> lv[t].id,
                   should_respond |-> FALSE, payload |-> Head(todo[t]).cmd.payload]

\* C20: send appends exactly one entry with should_respond false and
\* returns without waiting; it leaves the pending map, the load flag, the
\* interval and the callbacks alone, and its exchange is no key of the
\* pending map.
C20_Send ==
    /\ [](\A t \in Threads :
            pc[t] = "send_put" => (lv[t].id \notin in_waiting /\ ENABLED SendPut(t)))
    /\ [][C20_Step]_vars

\* A send has put its command behind another entry while an exchange was
\* pending.
C20_Witness ==
    /\ in_waiting # {}
    /\ \E k \in 2..Len(enqLog[CurQ]) : ~enqLog[CurQ][k].pkt.should_respond

\* The callers blocked in send_and_receive: in wait(), the event not set.
BlockedCallers == {t \in AppThreads : pc[t] = "sar_wait" /\ ~signaled[lv[t].id]}

\* The step thread u is at can be taken.
C21_CanStep(u) ==
    /\ pc[u] = "send_put" => ENABLED SendPut(u)
    /\ pc[u] = "sar_put" => ENABLED SarPut(u)
    /\ pc[u] = "sar_reg" => ENABLED SarRegister(u)
    /\ pc[u] = "get_nowait" => ENABLED PollGet(u)
    /\ (pc[u] = "dispatch" /\ lv[u].msg.topic = "command_loop") => ENABLED PollRef(u)
    /\ (pc[u] = "dispatch" /\ IsReply(lv[u].msg)) => ENABLED ProcessMessage(u)
    /\ pc[u] = "pm_set" => ENABLED ProcessSet(u)
    /\ pc[u] = "get_inval" => ENABLED GetInvalidate(u)
    /\ (pc[u] \in {"get_buf", "get_buf_put", "get_int", "run"} /\ quota > 0) =>
         ENABLED (Get(u) \/ RunSetInterval(u) \/ RunLabel(u) \/ RunSend(u))
    /\ (u \in AppThreads /\ MayStart(u) /\ FreeIds # {}) =>
         (ENABLED RunSend(u) /\ ENABLED RunSar(u))
    /\ (u \in Workers /\ MayStart(u)) =>
         (ENABLED PostCheck(u, PollMsgs \cup ReplyMsgs)
            /\ (ngets < MaxGets => ENABLED GetClear(u)))

\* C21: while callers are blocked in send_and_receive, every step of
\* another thread's send, send_and_receive, poll, reply handling or queue
\* invalidation can be taken: a blocked caller holds nothing the others
\* need.
C21_BlockedHoldsNoLock ==
    BlockedCallers # {} => \A u \in Threads \ BlockedCallers : C21_CanStep(u)

\* A caller is blocked while a GET is about to replace the queue.
C21_Witness ==
    /\ BlockedCallers # {}
    /\ \E w \in Workers : pc[w] = "get_inval"
\* The thread is inside set_global_update_interval.
C22_Inside(t) == lv[t].msg.topic = "set_global"

\* When the loop has ended, the setter has been called once for every page
\* the registry had when the call was made, in the order they were added,
\* and each of these pages stores the interval.
C22_Done ==
    \A t \in AppThreads : pc[t] = "global_ret" =>
      LET i == lv[t].msg.id
          did == lv[t].did IN
        /\ did = SubSeq(pages_values(pages), 1, lv[t].n)
        /\ \A k \in DOMAIN did :
             IF did[k] = "/" THEN interval = i ELSE sub.interval = i

\* No call of set_global_update_interval has ended with an exception.
C22_Ends == \A e \in errors : e.op # "set_global_update_interval"

\* The update_interval packet of interval i with the id the thread's
\* exchange has, as the next entry put.
C22_Entry(t, i) ==
    [pkt |-> [topic |-> "update_interval", id |-> lv[t].id,
              should_respond |-> FALSE, payload |-> IntVal(i)],
     sn |-> nput + 1]

\* The steps of the call: the setter of a page stores the interval in that
\* page, its send appends one update_interval packet of the interval to the
\* Queue object it read from that page (an object no one holds any more,
\* abandoned by a reload since the read, is not looked at); no step of the
\* call changes the pages.
C22_Step ==
    \A t \in AppThreads : C22_Inside(t) =>
      LET i == lv[t].msg.id IN
        /\ (pc'[t] # pc[t] \/ todo'[t] # todo[t]) => (pages' = pages /\ routes' = routes)
        /\ (pc[t] = "run" /\ todo'[t] # todo[t] /\ Head(todo[t]).op = "set_interval")
             => interval' = i
        /\ (pc[t] = "run" /\ todo'[t] # todo[t] /\ Head(todo[t]).op = "set_interval_at")
             => sub'.interval = i
        /\ (pc[t] = "send_put" /\ pc'[t] # pc[t] /\ lv[t].qref \in HeldBut(t))
             => queues'[lv[t].qref] = Append(queues[lv[t].qref], C22_Entry(t, i))
        /\ (pc[t] = "sub_send_put" /\ pc'[t] # pc[t])
             => sub'.queues[lv[t].sref] = Append(sub.queues[lv[t].sref], C22_Entry(t, i))

\* C22: when set_global_update_interval(ms) has called the setter of
\* every registered page, each page stores the interval ms and has got
\* exactly one more entry in its queue, the update_interval command of ms;
\* the call adds and removes no page.
C22_SetGlobalInterval == []C22_Done /\ [][C22_Step]_vars

\* Thread t is inside send_and_receive and has not got its reply.
InCall(t) == pc[t] \in {"sar_put", "sar_reg", "sar_wait"}

\* C23: with no reload, a page that keeps polling and posts a reply for
\* every command that asks for one, every send_and_receive call returns in
\* the end.
C23_CallReturns == \A t \in AppThreads : InCall(t) ~> ~InCall(t)
\* The place in the queue's log of the entry that asks for a response
\* under id i (0 if there is none).
C24_Place(i) ==
    LET ks == {k \in DOMAIN enqLog[CurQ] :
                 enqLog[CurQ][k].pkt.id = i /\ enqLog[CurQ][k].pkt.should_respond} IN
      IF ks = {} THEN 0 ELSE CHOOSE k \in ks : \A j \in ks : j <= k

\* A caller whose event is set goes on, whatever the other exchanges are
\* at, and what it returns, and what every call has returned, is a payload
\* posted under its own id.
C24_Unblocks ==
    /\ \A t \in AppThreads :
         /\ (pc[t] = "sar_wait" /\ signaled[lv[t].id]) => ENABLED SarWait(t)
         /\ pc[t] = "sar_ret" => result[lv[t].id] \in posted[lv[t].id]
    /\ \A r \in returned : r.val \in posted[r.id]

\* The handling of a reply to a pending exchange writes the result of that
\* exchange and sets the event of that exchange, and of no other.
C24_Step ==
    \A w \in Workers :
      /\ (pc[w] = "dispatch" /\ IsReply(lv[w].msg) /\ pc'[w] = "pm_set") =>
           /\ result' = [result EXCEPT ![lv[w].msg.id] = lv[w].msg.payload]
           /\ signaled' = signaled
           /\ lv'[w].id = lv[w].msg.id
      /\ (pc[w] = "pm_set" /\ pc'[w] # "pm_set") =>
           /\ signaled' = [signaled EXCEPT ![lv[w].msg.id] = TRUE]
           /\ result' = result

\* C24: replies are matched by id, not by order: a reply resolves its own
\* exchange with its own payload and unblocks its own caller, whether or
\* not exchanges queued earlier have been answered.
C24_NoHeadOfLine == []C24_Unblocks /\ [][C24_Step]_vars

\* Two callers have returned, each the payload posted for its own id, the
\* two payloads different; the exchange queued earlier got its reply after
\* the one queued later had got its own.
C24_Witness ==
    \E ra \in returned, rb \in returned :
      /\ ra.id # rb.id /\ ra.val # rb.val
      /\ posted[ra.id] = {ra.val} /\ posted[rb.id] = {rb.val}
      /\ C24_Place(ra.id) > 0 /\ C24_Place(ra.id) < C24_Place(rb.id)
      /\ setLog = << rb.id, ra.id >>
\* A caller blocked under an id no reply has been posted for stays
\* blocked: its event is not set and its wait cannot go on.
C25_StaysBlocked ==
    \A t \in AppThreads :
      (pc[t] = "sar_wait" /\ posted[lv[t].id] = {}) =>
        (~signaled[lv[t].id] /\ ~ENABLED SarWait(t))

\* No step of a GET writes the pending map, a result or an event.
C25_Step ==
    \A w \in Workers :
      ((lv[w].msg.topic = "GET" \/ lv'[w].msg.topic = "GET") /\ pc'[w] # pc[w]) =>
        (in_waiting' = in_waiting /\ signaled' = signaled /\ result' = result)

\* C25: a GET neither changes the pending map nor sets an event: a caller
\* whose command went with the old queue stays blocked as long as no reply
\* with its id is posted.
C25_ReloadAbandonsCaller == []C25_StaysBlocked /\ [][C25_Step]_vars

\* A GET has been answered, nothing was ever taken from a queue, the new
\* queue holds no command that asks for a response, and a registered caller
\* is blocked: its command went with the old queue.
C25_Witness ==
    /\ \E a \in answers : a.kind = "html"
    /\ ngot = 0
    /\ \A k \in DOMAIN queues[CurQ] : ~queues[CurQ][k].pkt.should_respond
    /\ \E t \in AppThreads :
         /\ pc[t] = "sar_wait" /\ lv[t].id \in in_waiting
         /\ ~signaled[lv[t].id]
\* The entries a GET leaves on the queue it creates.
GetEntries(i) ==
    << [topic |-> "nothing", should_respond |-> FALSE, payload |-> None],
       [topic |-> "nothing", should_respond |-> FALSE, payload |-> None],
       [topic |-> "update_interval", should_respond |-> FALSE, payload |-> IntVal(i)] >>

\* The scripts main.on_load sends, in its order; the first is the label of
\* the interval stored then.
HookScripts(i) ==
    << set_button_text(IntervalButton, i).payload >>
      \o [k \in 1..(Len(MainOnLoad) - 1) |-> MainOnLoad[k + 1].cmd.payload]

\* The place of a script in the hook (0: not one of the hook's).
HookPlace(payload) ==
    LET ms == {m \in 1..Len(MainOnLoad) :
                 \E i \in {DefaultInterval} \cup Intervals : HookScripts(i)[m] = payload} IN
      IF ms = {} THEN 0 ELSE CHOOSE m \in ms : TRUE

\* On a queue a GET has created, the commands of the hook come after the
\* three entries of the GET, and none without the one the hook sends
\* before it.
C26_Order ==
    \A q \in 2..Len(enqLog) : \A k \in DOMAIN enqLog[q] :
      enqLog[q][k].pkt.topic = "javascript" =>
        /\ k > 3
        /\ \E i \in {DefaultInterval} \cup Intervals :
             SubSeq(Shape(enqLog[q]), 1, 3) = GetEntries(i)
        /\ HookPlace(enqLog[q][k].pkt.payload) >= 1
        /\ HookPlace(enqLog[q][k].pkt.payload) > 1 =>
             \E j \in 1..(k - 1) :
               HookPlace(enqLog[q][j].pkt.payload) = HookPlace(enqLog[q][k].pkt.payload) - 1

\* The POST that made the transition inspects the topic when the hook is
\* done, and if it is a poll tick after a reload it answers the first entry
\* the GET put, a no-op.
C26_Step ==
    \A w \in Workers :
      /\ (cont[w] = "dispatch" /\ pc[w] = "dispatch" /\ pc'[w] # pc[w]) => todo[w] = << >>
      /\ (cont[w] = "dispatch" /\ pc[w] = "get_nowait" /\ pc'[w] = "idle"
            /\ lv[w].qref >= 2) =>
           /\ queues[lv[w].qref] # << >>
           /\ Head(queues[lv[w].qref]) = enqLog[lv[w].qref][1]
           /\ Head(queues[lv[w].qref]).pkt.topic = "nothing"

\* C26: the POST that loads the page runs the hook to its end before it
\* looks at the topic; the commands of the hook come after the entries of
\* the GET, in the order of the hook, and that POST, if a poll tick, answers
\* the first no-op of the GET.
C26_HookBeforeDispatch == []C26_Order /\ [][C26_Step]_vars
\* Worker w takes a step of the POST it handles, past the hook.
C27_Handles(w) == pc[w] \in {"dispatch", "get_nowait", "pm_set"} /\ pc'[w] # pc[w]

\* The answer worker w gives with this step, if it gives one.
C27_Answer(w) == {a \in answers' \ answers : a.req = lv[w].msg}

\* What each kind of POST does past the hook: a poll tick takes at most
\* one entry, with the step that answers, and leaves the exchanges and the
\* callbacks alone; a click and a reply take nothing from the queue; a
\* click leaves the exchanges alone; a reply to a pending id writes the
\* result and the event of that id only, calls no callback, and is answered
\* with the no-op packet.
C27_Step ==
    \A w \in Workers : C27_Handles(w) =>
      /\ lv[w].msg.topic = "command_loop" =>
           /\ exchanges' = exchanges /\ clicks' = clicks
           /\ ngot' \in {ngot, ngot + 1}
           /\ ngot' # ngot => pc'[w] = "idle"
      /\ lv[w].msg.topic = "onclick" =>
           /\ exchanges' = exchanges
           /\ ngot' = ngot /\ deqLog' = deqLog /\ queues' = queues
           /\ \A a \in C27_Answer(w) : a.kind = "ack"
      /\ (lv[w].msg.topic = "result" /\ lv[w].msg.id \in in_waiting) =>
           /\ ngot' = ngot /\ deqLog' = deqLog /\ queues' = queues
           /\ clicks' = clicks /\ in_waiting' = in_waiting
           /\ \A i \in IdPool \ {lv[w].msg.id} :
                result'[i] = result[i] /\ signaled'[i] = signaled[i]
           /\ \A a \in C27_Answer(w) : a.kind = "ack" /\ IsNothing(a.pkt)
           /\ pc'[w] = "idle" => signaled'[lv[w].msg.id]

\* C27: the dispatch of a POST is by topic and exclusive: only a poll tick
\* takes from the queue, and one entry at most; only a reply touches the
\* exchanges, and of them only the one it names; only a click calls a
\* callback.
C27_DispatchByTopic == [][C27_Step]_vars

\* A poll tick has taken the command of a pending exchange and a reply
\* has resolved it.
C27_Witness ==
    /\ \E a \in answers : a.kind = "poll" /\ a.pkt.should_respond
    /\ \E i \in in_waiting : nresolved[i] >= 1
\* Worker w has set the flag in the POST it handles and calls the hook
\* (line 314), or is in the hook and has not made the hook's first call yet.
HookAtStart(w) ==
    \/ pc[w] = "post_hook"
    \/ cont[w] = "dispatch" /\ pc[w] = "run" /\ todo[w] = on_load

\* C28: the POST that loads the page sets the flag before it calls the
\* hook, so the hook starts with the flag set.
C28_FlagSetWhenHookStarts == \A w \in Workers : HookAtStart(w) => has_loaded
\* start() has returned only with the event set; the event is set, and
\* the tags are built, only by a message that came after the one that
\* populated the headers; before that message the tags are empty.
C29_Ready ==
    /\ bus.pc = "returned" => bus.ready
    /\ (bus.ready \/ bus.mq = "set_ready") =>
         (bus.hdrAt > 0 /\ bus.valAt > bus.hdrAt /\ bus.tag_headers # {})
    /\ bus.valAt = 0 => (bus.tags = {} /\ ~bus.ready)
    /\ bus.tags # {} => (bus.ready \/ bus.mq = "set_ready")

\* Headers that are not empty stay as they are.
C29_Step == bus.tag_headers # {} => bus'.tag_headers = bus.tag_headers

\* C29: start() returns only once the ready event is set, which a values
\* message sets after an earlier message populated the headers; until then
\* there are no tags, and populated headers never change.
C29_DatabusReady == []C29_Ready /\ [][C29_Step]_vars

\* start() has returned: a header message, then a values message with its
\* tags.
C29_Witness ==
    /\ bus.pc = "returned"
    /\ bus.tags # {}
    /\ bus.hdrAt = 1 /\ bus.valAt = 2
\* Worker w is in on_update_interval_click.
InClick(w) == cont[w] = "click_done"

\* The steps of a click on the interval button: the click that makes the
\* k-th call of next() gets the ((k-1) mod 5)-th value of the cycle; the
\* setter stores that value; the two puts of the click are the
\* update_interval command of that value and the script that sets the
\* label to that value followed by ms.
C30_Step ==
    \A w \in Workers :
      /\ (pc[w] = "dispatch" /\ InClick(w)') =>
           lv'[w].k = CycleVals[(cycle % 5) + 1]
      /\ (InClick(w) /\ pc[w] = "run" /\ Head(todo[w]).op = "set_interval"
            /\ todo'[w] # todo[w]) =>
           interval' = lv[w].k
      /\ (InClick(w) /\ pc[w] = "send_put" /\ pc'[w] # pc[w]) =>
           LET q == lv[w].qref
               e == queues'[q][Len(queues'[q])].pkt IN
             /\ Len(queues'[q]) = Len(queues[q]) + 1
             /\ IF Len(todo[w]) > 1
                  THEN e.topic = "update_interval" /\ e.payload = IntVal(lv[w].k)
                  ELSE e.topic = "javascript"
                       /\ e.payload = set_button_text(IntervalButton, lv[w].k).payload

\* C30: every click on the interval button sets the interval to the next
\* value of the cycle 75, 50, 25, 10, 100 and puts the update_interval
\* command of that value and then the script that labels the button with
\* that value.
C30_IntervalCycle == [][C30_Step]_vars
====
